---- MODULE Spec2Model ----
(***************************************************************************)
(* Model of the idp-cli template pipeline: the variable context (a flat    *)
(* path -> value map with structural navigation), the context builder and  *)
(* the custom-variable merge, template rendering, and the file writer.     *)
(*                                                                         *)
(* Strings that the code parses (variable paths, map keys) are sequences   *)
(* of one-character strings, so that split('.'), find('[') and the byte    *)
(* slices of the source are modelled as they operate.  Scalar payloads     *)
(* that the code never parses are atoms.                                   *)
(***************************************************************************)
EXTENDS Integers, Sequences, FiniteSets, TLC

(***************************************************************************)
(* Bounds of the model.                                                    *)
(***************************************************************************)
MaxResources == 1
MaxRenders == 2

(***************************************************************************)
(* State of one run of the tool.                                           *)
(***************************************************************************)
VARIABLES
    domain,           \* the domain object the API returns for this run
    tree,             \* the template directory
    platform,         \* "unix" or "other": the target of the build
    pc,               \* position of the run, see the actions
    variables,        \* VariableContext.variables
    warnings,         \* the override warnings written to stderr, in order
    before,           \* the map as it was when the merge started
    merged,           \* the document of the merge, None before it
    lookup,           \* the last get: <<path, result>>, None before any
    rendered,         \* the process_template calls: <<template, map, result>>
    template_files,   \* handle_generate: the discovered templates
    processed_files,  \* handle_generate: the files rendered so far
    written_files,    \* write_processed_files: the paths written so far
    wstep,            \* position inside the write of one file
    outfs,            \* the output directory: path -> node
    overwrites,       \* the overwrite warnings written to stderr, in order
    lastWrite,        \* <<path, content>> when write_with_warning has just
                      \* returned Ok, None otherwise
    error,            \* the error the run returned, None when none
    call,             \* the last call of a function examined on its own:
                      \* <<function, arguments, result>>, None before any
    events            \* the stages the run has executed, in order

(***************************************************************************)
(* Path and key spellings.                                                 *)
(***************************************************************************)
K_blueprint == <<"b", "l", "u", "e", "p", "r", "i", "n", "t">>
K_stack == <<"s", "t", "a", "c", "k">>
K_id == <<"i", "d">>
K_name == <<"n", "a", "m", "e">>
K_description == <<"d", "e", "s", "c", "r", "i", "p", "t", "i", "o", "n">>
K_cloud_name == <<"c", "l", "o", "u", "d", "_", "n", "a", "m", "e">>
K_stack_type == <<"s", "t", "a", "c", "k", "_", "t", "y", "p", "e">>
K_resources == <<"r", "e", "s", "o", "u", "r", "c", "e", "s">>
K_stack_resources == <<"s", "t", "a", "c", "k", "_", "r", "e", "s", "o", "u", "r", "c", "e", "s">>
K_resource_type == <<"r", "e", "s", "o", "u", "r", "c", "e", "_", "t", "y", "p", "e">>
K_category == <<"c", "a", "t", "e", "g", "o", "r", "y">>
K_cloud_provider == <<"c", "l", "o", "u", "d", "_", "p", "r", "o", "v", "i", "d", "e", "r">>
K_display_name == <<"d", "i", "s", "p", "l", "a", "y", "_", "n", "a", "m", "e">>
K_configuration == <<"c", "o", "n", "f", "i", "g", "u", "r", "a", "t", "i", "o", "n">>
K_cloud_specific_properties == <<"c", "l", "o", "u", "d", "_", "s", "p", "e", "c", "i", "f", "i", "c", "_", "p", "r", "o", "p", "e", "r", "t", "i", "e", "s">>
K_supported_cloud_providers == <<"s", "u", "p", "p", "o", "r", "t", "e", "d", "_", "c", "l", "o", "u", "d", "_", "p", "r", "o", "v", "i", "d", "e", "r", "s">>
K_region == <<"r", "e", "g", "i", "o", "n">>
K_tags == <<"t", "a", "g", "s">>
K_port == <<"p", "o", "r", "t">>
K_engine == <<"e", "n", "g", "i", "n", "e">>
K_matrix == <<"m", "a", "t", "r", "i", "x">>
K_env == <<"e", "n", "v">>

Dot == "."
LBracket == "["
RBracket == "]"

(***************************************************************************)
(* serde_json::Value.  An object keeps its entries as a sequence of        *)
(* <<key, value>> pairs with distinct keys, in the map's iteration order.  *)
(***************************************************************************)
VNull == <<"null">>
VStr(s) == <<"str", s>>
VObj(entries) == <<"obj", entries>>
VArr(items) == <<"arr", items>>
VNum(n) == <<"num", n>>
VBool(b) == <<"bool", b>>

IsObject(v) == v[1] = "obj"
IsArray(v) == v[1] = "arr"
IsComposite(v) == IsObject(v) \/ IsArray(v)

\* Option<T>
Some(v) == <<"some", v>>
None == <<"none">>
\* the outcome of a call that aborts the process (a Rust panic)
Panic == <<"panic">>
IsSome(r) == r[1] = "some"
Unwrap(r) == r[2]

\* Value::get(&str): the field of an object, None for anything else
ValueGetKey(v, key) ==
    IF IsObject(v) /\ \E i \in 1..Len(v[2]) : v[2][i][1] = key
    THEN Some(v[2][CHOOSE i \in 1..Len(v[2]) : v[2][i][1] = key][2])
    ELSE None

\* Value::get(usize): the element of an array, None for anything else
ValueGetIndex(v, index) ==
    IF IsArray(v) /\ index < Len(v[2]) THEN Some(v[2][index + 1]) ELSE None

(***************************************************************************)
(* String helpers of the standard library, over character sequences.       *)
(***************************************************************************)
DigitChars == {"0", "1", "2", "3", "4", "5", "6", "7", "8", "9"}
DigitValue(c) ==
    CASE c = "0" -> 0 [] c = "1" -> 1 [] c = "2" -> 2 [] c = "3" -> 3
      [] c = "4" -> 4 [] c = "5" -> 5 [] c = "6" -> 6 [] c = "7" -> 7
      [] c = "8" -> 8 [] c = "9" -> 9
DigitChar(d) ==
    CASE d = 0 -> "0" [] d = 1 -> "1" [] d = 2 -> "2" [] d = 3 -> "3"
      [] d = 4 -> "4" [] d = 5 -> "5" [] d = 6 -> "6" [] d = 7 -> "7"
      [] d = 8 -> "8" [] d = 9 -> "9"

\* format!("{}", index) for a usize
RECURSIVE FormatUsize(_)
FormatUsize(n) ==
    IF n < 10 THEN <<DigitChar(n)>>
    ELSE FormatUsize(n \div 10) \o <<DigitChar(n % 10)>>

RECURSIVE DigitsValue(_)
DigitsValue(s) ==
    IF Len(s) = 0 THEN 0
    ELSE 10 * DigitsValue(SubSeq(s, 1, Len(s) - 1)) + DigitValue(s[Len(s)])

\* str::parse::<usize>(): an optional '+', then one or more decimal digits;
\* anything else (empty, '-', a letter, a bracket) is an error, here -1
ParseUsize(s) ==
    LET digits == IF Len(s) > 0 /\ s[1] = "+" THEN Tail(s) ELSE s
    IN IF Len(digits) > 0 /\ \A i \in 1..Len(digits) : digits[i] \in DigitChars
       THEN DigitsValue(digits)
       ELSE -1

\* str::find(c): the 1-based position of the first c, 0 when there is none
Find(s, c) ==
    IF \E i \in 1..Len(s) : s[i] = c
    THEN CHOOSE i \in 1..Len(s) : s[i] = c /\ \A j \in 1..(i - 1) : s[j] # c
    ELSE 0

\* str::split('.'): always at least one part, empty parts kept
RECURSIVE SplitDot(_)
SplitDot(s) ==
    LET i == Find(s, Dot)
    IN IF i = 0 THEN <<s>>
       ELSE <<SubSeq(s, 1, i - 1)>> \o SplitDot(SubSeq(s, i + 1, Len(s)))

(***************************************************************************)
(* VariableContext: the flat map and its lookups.                          *)
(***************************************************************************)
EmptyContext == <<>>

ContainsKey(vars, key) == key \in DOMAIN vars

\* HashMap::get
MapGet(vars, key) == IF key \in DOMAIN vars THEN Some(vars[key]) ELSE None

\* VariableContext::insert: overwrite semantics
Insert(vars, key, value) ==
    [k \in (DOMAIN vars) \cup {key} |-> IF k = key THEN value ELSE vars[k]]

\* The index of a bracketed part: part[bracket_pos + 1 .. part.len() - 1]
\* parsed as usize.  The slice aborts when it starts after its end, which is
\* the case exactly when '[' is the last character of the part.
IndexSliceAborts(part, pos) == pos > Len(part) - 1
IndexOf(part, pos) == ParseUsize(SubSeq(part, pos + 1, Len(part) - 1))

get_with_array_index(vars, part) ==
    LET pos == Find(part, LBracket)
    IN IF pos # 0
       THEN IF IndexSliceAborts(part, pos) THEN Panic
            ELSE IF IndexOf(part, pos) < 0 THEN None
            ELSE LET array == MapGet(vars, SubSeq(part, 1, pos - 1))
                 IN IF IsSome(array)
                    THEN ValueGetIndex(Unwrap(array), IndexOf(part, pos))
                    ELSE None
       ELSE MapGet(vars, part)

navigate_part(current, part) ==
    LET pos == Find(part, LBracket)
    IN IF pos # 0
       THEN IF IndexSliceAborts(part, pos) THEN Panic
            ELSE IF IndexOf(part, pos) < 0 THEN None
            ELSE LET value == ValueGetKey(current, SubSeq(part, 1, pos - 1))
                 IN IF IsSome(value)
                    THEN ValueGetIndex(Unwrap(value), IndexOf(part, pos))
                    ELSE None
       ELSE ValueGetKey(current, part)

\* the loop over parts[1..] with the ? operator: stops at the first None,
\* and an abort ends the call
RECURSIVE Navigate(_, _, _)
Navigate(current, parts, i) ==
    IF ~IsSome(current) THEN current
    ELSE IF i > Len(parts) THEN current
    ELSE Navigate(navigate_part(Unwrap(current), parts[i]), parts, i + 1)

get(vars, path) ==
    IF ContainsKey(vars, path) THEN Some(vars[path])
    ELSE LET parts == SplitDot(path)
         IN IF Len(parts) = 1 THEN get_with_array_index(vars, parts[1])
            ELSE Navigate(get_with_array_index(vars, parts[1]), parts, 2)

(***************************************************************************)
(* VariableContextBuilder::flatten_and_merge.  The merge state is the map  *)
(* together with the warning lines written to stderr so far (each line is  *)
(* identified by the path it names).                                       *)
(***************************************************************************)
MergeState(vars, warns) == [vars |-> vars, warns |-> warns]

\* if context.variables.contains_key(key) { eprintln!(...) }
WarnIfPresent(ms, key) ==
    IF ContainsKey(ms.vars, key)
    THEN MergeState(ms.vars, Append(ms.warns, key))
    ELSE ms

InsertInto(ms, key, value) == MergeState(Insert(ms.vars, key, value), ms.warns)

ObjectPrefix(prefix, key) ==
    IF Len(prefix) = 0 THEN key ELSE prefix \o <<Dot>> \o key

IndexedKeyOneBased(prefix, index) ==
    prefix \o <<LBracket>> \o FormatUsize(index + 1) \o <<RBracket>>

IndexedKey(prefix, index) ==
    prefix \o <<LBracket>> \o FormatUsize(index) \o <<RBracket>>

RECURSIVE flatten_and_merge(_, _, _)
RECURSIVE FlattenEntries(_, _, _, _)
RECURSIVE FlattenItems(_, _, _, _)

\* for (key, val) in obj { ... }
FlattenEntries(ms, prefix, entries, i) ==
    IF i > Len(entries) THEN ms
    ELSE LET new_prefix == ObjectPrefix(prefix, entries[i][1])
             val == entries[i][2]
             warned == WarnIfPresent(ms, new_prefix)
             inserted == InsertInto(warned, new_prefix, val)
         IN FlattenEntries(
                IF IsComposite(val)
                THEN flatten_and_merge(inserted, new_prefix, val)
                ELSE inserted,
                prefix, entries, i + 1)

\* for (index, item) in arr.iter().enumerate() { ... }
FlattenItems(ms, prefix, items, i) ==
    IF i > Len(items) THEN ms
    ELSE LET indexed_key == IndexedKey(prefix, i - 1)
             item == items[i]
             warned == WarnIfPresent(ms, indexed_key)
             inserted == InsertInto(warned, indexed_key, item)
         IN FlattenItems(
                IF IsComposite(item)
                THEN flatten_and_merge(inserted, indexed_key, item)
                ELSE inserted,
                prefix, items, i + 1)

flatten_and_merge(ms, prefix, value) ==
    IF IsObject(value) THEN FlattenEntries(ms, prefix, value[2], 1)
    ELSE IF IsArray(value)
    THEN FlattenItems(
             IF Len(prefix) # 0
             THEN InsertInto(WarnIfPresent(ms, prefix), prefix, value)
             ELSE ms,
             prefix, value[2], 1)
    ELSE IF Len(prefix) # 0
    THEN InsertInto(WarnIfPresent(ms, prefix), prefix, value)
    ELSE ms

(***************************************************************************)
(* The domain objects (models.rs) and the two builders.  A HashMap field   *)
(* of a domain object is a sequence of <<key, value>> pairs with distinct  *)
(* keys; an Option field is Some(x) or None.                               *)
(***************************************************************************)
\* context.insert for each pair of a sequence of <<key, value>> pairs
RECURSIVE InsertAll(_, _)
InsertAll(vars, pairs) ==
    IF Len(pairs) = 0 THEN vars
    ELSE InsertAll(Insert(vars, pairs[1][1], pairs[1][2]), Tail(pairs))

\* if let Some(ref description) = x.description { insert(key, description) }
OptionalPair(key, opt) ==
    IF IsSome(opt) THEN << <<key, VStr(Unwrap(opt))>> >> ELSE <<>>

Path2(a, b) == a \o <<Dot>> \o b
Path3(a, b, c) == a \o <<Dot>> \o b \o <<Dot>> \o c

ResourceTypeObj(rt) ==
    VObj(<< <<K_id, VStr(rt.id)>>, <<K_name, VStr(rt.name)>>,
            <<K_category, VStr(rt.category)>> >>)

CloudProviderObj(cp) ==
    VObj(<< <<K_id, VStr(cp.id)>>, <<K_name, VStr(cp.name)>>,
            <<K_display_name, VStr(cp.display_name)>> >>)

\* the resource_obj built inside from_blueprint's map closure
BlueprintResourceObj(r) ==
    VObj(<< <<K_id, VStr(r.id)>>, <<K_name, VStr(r.name)>> >>
         \o OptionalPair(K_description, r.description)
         \o << <<K_resource_type, ResourceTypeObj(r.resource_type)>>,
               <<K_cloud_provider, CloudProviderObj(r.cloud_provider)>>,
               <<K_configuration, r.configuration>>,
               <<K_cloud_specific_properties,
                 VObj(r.cloud_specific_properties)>> >>)

\* the flattened accessors both builders create for one resource
ResourceAccessors(prefix, r) ==
    << <<Path2(prefix, K_id), VStr(r.id)>>,
       <<Path2(prefix, K_name), VStr(r.name)>> >>
    \o OptionalPair(Path2(prefix, K_description), r.description)
    \o << <<Path3(prefix, K_resource_type, K_id), VStr(r.resource_type.id)>>,
          <<Path3(prefix, K_resource_type, K_name), VStr(r.resource_type.name)>>,
          <<Path3(prefix, K_resource_type, K_category),
            VStr(r.resource_type.category)>>,
          <<Path3(prefix, K_cloud_provider, K_id), VStr(r.cloud_provider.id)>>,
          <<Path3(prefix, K_cloud_provider, K_name), VStr(r.cloud_provider.name)>>,
          <<Path3(prefix, K_cloud_provider, K_display_name),
            VStr(r.cloud_provider.display_name)>> >>

\* one <<prefix.field.key, value>> pair per entry of a HashMap field
PropertyPairs(prefix, field, props) ==
    [i \in 1..Len(props) |-> <<Path3(prefix, field, props[i][1]), props[i][2]>>]

BlueprintResourcePairs(index, r) ==
    LET prefix == IndexedKey(K_resources, index)
    IN ResourceAccessors(prefix, r)
       \o << <<Path2(prefix, K_configuration), r.configuration>> >>
       \o PropertyPairs(prefix, K_cloud_specific_properties,
                        r.cloud_specific_properties)

RECURSIVE InsertBlueprintResources(_, _, _)
InsertBlueprintResources(vars, resources, i) ==
    IF i > Len(resources) THEN vars
    ELSE InsertBlueprintResources(
             InsertAll(vars, BlueprintResourcePairs(i - 1, resources[i])),
             resources, i + 1)

BlueprintMetadata(bp) ==
    << <<Path2(K_blueprint, K_id), VStr(bp.id)>>,
       <<Path2(K_blueprint, K_name), VStr(bp.name)>> >>
    \o OptionalPair(Path2(K_blueprint, K_description), bp.description)

from_blueprint(bp) ==
    LET metadata == InsertAll(EmptyContext, BlueprintMetadata(bp))
        resources_json ==
            [i \in 1..Len(bp.resources) |-> BlueprintResourceObj(bp.resources[i])]
        with_array == Insert(metadata, K_resources, VArr(resources_json))
        with_accessors == InsertBlueprintResources(with_array, bp.resources, 1)
        cloud_providers_json ==
            [i \in 1..Len(bp.supported_cloud_providers) |->
                CloudProviderObj(bp.supported_cloud_providers[i])]
    IN Insert(with_accessors, K_supported_cloud_providers,
              VArr(cloud_providers_json))

\* the resource_obj built inside from_stack's map closure
StackResourceObj(r) ==
    VObj(<< <<K_id, VStr(r.id)>>, <<K_name, VStr(r.name)>> >>
         \o OptionalPair(K_description, r.description)
         \o << <<K_resource_type, ResourceTypeObj(r.resource_type)>>,
               <<K_cloud_provider, CloudProviderObj(r.cloud_provider)>>,
               <<K_configuration, VObj(r.configuration)>> >>)

StackResourcePairs(index, r) ==
    LET prefix == IndexedKey(K_stack_resources, index)
    IN ResourceAccessors(prefix, r)
       \o PropertyPairs(prefix, K_configuration, r.configuration)

RECURSIVE InsertStackResources(_, _, _)
InsertStackResources(vars, resources, i) ==
    IF i > Len(resources) THEN vars
    ELSE InsertStackResources(
             InsertAll(vars, StackResourcePairs(i - 1, resources[i])),
             resources, i + 1)

StackMetadata(st) ==
    << <<Path2(K_stack, K_id), VStr(st.id)>>,
       <<Path2(K_stack, K_name), VStr(st.name)>> >>
    \o OptionalPair(Path2(K_stack, K_description), st.description)
    \o << <<Path2(K_stack, K_cloud_name), VStr(st.cloud_name)>>,
          <<Path2(K_stack, K_stack_type), VStr(st.stack_type)>> >>

from_stack(st) ==
    LET metadata == InsertAll(EmptyContext, StackMetadata(st))
        stack_resources_json ==
            [i \in 1..Len(st.stack_resources) |->
                StackResourceObj(st.stack_resources[i])]
        with_array == Insert(metadata, K_stack_resources,
                             VArr(stack_resources_json))
        with_accessors ==
            InsertStackResources(with_array, st.stack_resources, 1)
    IN IF IsSome(st.blueprint)
       THEN InsertAll(with_accessors, BlueprintMetadata(Unwrap(st.blueprint)))
       ELSE with_accessors

(***************************************************************************)
(* TemplateProcessor::process_template.  The template text is given parsed: *)
(* Malformed when the text is not a well-formed template, otherwise a       *)
(* sequence of parts, a literal run of text or a {{path}} placeholder whose *)
(* path is its dot-separated segments.  The rendered text is the sequence   *)
(* of the non-empty pieces written to the output, in order.                 *)
(*                                                                          *)
(* The context handed to the engine is the flat map serialised as one JSON  *)
(* object: each key of the map, dots and brackets included, is one field of *)
(* the root.  The engine resolves a path segment by segment: a field of an  *)
(* object, an element of an array when the segment parses as usize.         *)
(* Indexing an array with a segment that is no usize is a render error of   *)
(* the engine ("Cannot access array/vector with string index").             *)
(***************************************************************************)
Ok(x) == <<"ok", x>>
Err(e) == <<"err", e>>
IsOk(r) == r[1] = "ok"

Malformed == << <<"malformed">> >>
Lit(text) == <<"lit", text>>
Var(segments) == <<"var", segments>>
\* {{default path fallback}}, the fallback a literal or None when left out
Default(segments, fallback) == <<"default", segments, fallback>>

\* handlebars.set_strict_mode(false)
StrictMode == FALSE

\* one step of the engine's navigation; Panic is not an outcome here, the
\* engine reports its failures as errors
DataError == <<"error">>
NavigateData(current, segment) ==
    IF ~IsSome(current) THEN current
    ELSE IF IsArray(Unwrap(current))
    THEN IF ParseUsize(segment) < 0 THEN DataError
         ELSE ValueGetIndex(Unwrap(current), ParseUsize(segment))
    ELSE ValueGetKey(Unwrap(current), segment)

RECURSIVE ResolveFrom(_, _, _)
ResolveFrom(current, segments, i) ==
    IF current = DataError \/ i > Len(segments) THEN current
    ELSE ResolveFrom(NavigateData(current, segments[i]), segments, i + 1)

\* the value of a path in serde_json::to_value(context.variables())
ResolvePath(vars, segments) ==
    IF Len(segments) = 0 THEN None
    ELSE ResolveFrom(MapGet(vars, segments[1]), segments, 2)

\* the text of a JSON value: a string as it is, a number and a boolean as
\* they are written, null as nothing, an object as a fixed marker, an array
\* as its elements between brackets
RECURSIVE RenderValue(_)
RECURSIVE RenderItems(_, _)
RenderItems(items, i) ==
    IF i > Len(items) THEN <<>>
    ELSE RenderValue(items[i]) \o <<", ">> \o RenderItems(items, i + 1)
RenderValue(v) ==
    IF v[1] = "str" THEN (IF v[2] = "" THEN <<>> ELSE <<v[2]>>)
    ELSE IF v[1] = "null" THEN <<>>
    ELSE IF v[1] = "num" THEN <<ToString(v[2])>>
    ELSE IF v[1] = "bool" THEN (IF v[2] THEN <<"true">> ELSE <<"false">>)
    ELSE IF IsObject(v) THEN <<"[object]">>
    ELSE <<"[">> \o RenderItems(v[2], 1) \o <<"]">>

\* Value::as_str().unwrap_or("")
AsStrOrEmpty(v) == IF v[1] = "str" THEN v[2] ELSE ""

\* default_helper: the engine has resolved the parameters; a path that
\* leads nowhere is handed over as null
default_helper(vars, part) ==
    LET value == ResolvePath(vars, part[2])
        default == part[3]
    IN IF value = DataError THEN Err("render")
       ELSE IF ~IsSome(default) THEN Err("render")
       ELSE LET val_str == IF IsSome(value) THEN AsStrOrEmpty(Unwrap(value))
                           ELSE ""
                result == IF val_str = "" THEN AsStrOrEmpty(Unwrap(default))
                          ELSE val_str
            IN Ok(IF result = "" THEN <<>> ELSE <<result>>)

RenderPart(vars, part) ==
    IF part[1] = "lit" THEN Ok(<<part[2]>>)
    ELSE IF part[1] = "default" THEN default_helper(vars, part)
    ELSE LET value == ResolvePath(vars, part[2])
         IN IF value = DataError THEN Err("render")
            ELSE IF ~IsSome(value)
            THEN (IF StrictMode THEN Err("render") ELSE Ok(<<>>))
            ELSE Ok(RenderValue(Unwrap(value)))

RECURSIVE RenderParts(_, _, _, _)
RenderParts(vars, parts, i, out) ==
    IF i > Len(parts) THEN Ok(out)
    ELSE LET piece == RenderPart(vars, parts[i])
         IN IF IsOk(piece)
            THEN RenderParts(vars, parts, i + 1, out \o piece[2])
            ELSE piece

\* a renderer that remembers whether it has rendered before
RenderRemembering(vars, template) ==
    IF Len(rendered) = 0 THEN Ok(<<"first">>) ELSE Ok(<<"again">>)

process_template(vars, template) ==
    IF template = Malformed THEN Err("syntax")
    ELSE RenderParts(vars, template, 1, <<>>)

(***************************************************************************)
(* Paths.  A path is the sequence of its components below a root, a        *)
(* component is a file name spelled as a string of characters.             *)
(***************************************************************************)
RECURSIVE RFind(_, _)
RFind(s, c) ==
    IF Len(s) = 0 THEN 0
    ELSE IF s[Len(s)] = c THEN Len(s)
    ELSE RFind(SubSeq(s, 1, Len(s) - 1), c)

FileName(path) == path[Len(path)]
Parent(path) == SubSeq(path, 1, Len(path) - 1)

\* Path::extension: the text after the last '.', none when the name has no
\* '.' or only a leading one
Extension(path) ==
    LET name == FileName(path)
        dot == RFind(name, Dot)
    IN IF dot <= 1 THEN None ELSE Some(SubSeq(name, dot + 1, Len(name)))

\* Path::file_stem
FileStem(path) ==
    LET name == FileName(path)
        dot == RFind(name, Dot)
    IN IF dot <= 1 THEN name ELSE SubSeq(name, 1, dot - 1)

\* Path::with_extension
with_extension(path, extension) ==
    Parent(path) \o << FileStem(path) \o <<Dot>> \o extension >>

\* a writer that writes in place: the temporary path is the target
InPlace(path) == path

TmpExtension == <<"t", "m", "p">>
TempPath(path) == with_extension(path, TmpExtension)

\* str::to_lowercase, over the letters that file names here are spelled with
LowerChar(c) ==
    IF c = "T" THEN "t" ELSE IF c = "F" THEN "f"
    ELSE IF c = "Y" THEN "y" ELSE IF c = "M" THEN "m"
    ELSE IF c = "L" THEN "l" ELSE IF c = "V" THEN "v" ELSE c
ToLowercase(s) == [i \in 1..Len(s) |-> LowerChar(s[i])]

(***************************************************************************)
(* TemplateDiscovery.  The template directory is Missing, NotDirectory, or *)
(* Directory(entries) with its entries in the order the walk meets them:   *)
(* each has a path below the root, a kind ("file", "dir", or "denied" for  *)
(* an entry the walk may not read) and, for a file, its content.           *)
(***************************************************************************)
Missing == <<"missing">>
NotDirectory == <<"file">>
DirectoryNamed(name, entries) == <<"dir", entries, name>>
DefaultRoot == <<"t">>
Directory(entries) == DirectoryNamed(DefaultRoot, entries)
RootName(dir) == dir[3]
Entry(path, kind, content) ==
    [path |-> path, kind |-> kind, content |-> content]
Unreadable == << <<"unreadable">> >>

\* a recognition that takes the extension as it is spelled
from_extension_as_spelled(extension) ==
    IF extension = <<"t", "f">> THEN Some("Terraform")
    ELSE IF extension = <<"y", "a", "m", "l">> \/ extension = <<"y", "m", "l">>
    THEN Some("Yaml")
    ELSE IF extension = <<"j", "s", "o", "n">> THEN Some("Json")
    ELSE None

\* TemplateFileType::from_extension
from_extension(extension) ==
    LET e == ToLowercase(extension)
    IN IF e = <<"t", "f">> THEN Some("Terraform")
       ELSE IF e = <<"y", "a", "m", "l">> \/ e = <<"y", "m", "l">>
       THEN Some("Yaml")
       ELSE IF e = <<"j", "s", "o", "n">> THEN Some("Json")
       ELSE None

\* TemplateDiscovery::is_hidden
is_hidden(name) == Len(name) > 0 /\ name[1] = Dot

\* a filter without the exception for the root
filter_every_entry(root, full_path) == ~is_hidden(FileName(full_path))

\* the closure given to filter_entry, on the full path of an entry (the
\* root's name, then the components below it): the root always passes,
\* every other entry passes unless its own name is hidden
filter_entry(root, full_path) ==
    IF full_path = <<root>> THEN TRUE ELSE ~is_hidden(FileName(full_path))

\* the walk does not meet an entry when the filter rejects the entry or a
\* directory above it
Pruned(root, path) ==
    \E n \in 0..Len(path) : ~filter_entry(root, <<root>> \o SubSeq(path, 1, n))

\* the walk over the entries: an entry that cannot be read ("denied" for a
\* permission failure, "failed" for any other) ends it with an error
\* <<kind, path>>
RECURSIVE Walk(_, _, _)
Walk(dir, i, found) ==
    IF i > Len(dir[2]) THEN Ok(found)
    ELSE LET entry == dir[2][i]
         IN IF Pruned(RootName(dir), entry.path) THEN Walk(dir, i + 1, found)
            ELSE IF entry.kind = "denied"
            THEN Err(<<"PermissionDenied", entry.path>>)
            ELSE IF entry.kind = "failed"
            THEN Err(<<"WalkError", entry.path>>)
            ELSE IF entry.kind # "file" THEN Walk(dir, i + 1, found)
            ELSE IF ~IsSome(Extension(entry.path))
            THEN Walk(dir, i + 1, found)
            ELSE LET file_type == from_extension(Unwrap(Extension(entry.path)))
                 IN IF IsSome(file_type)
                    THEN Walk(dir, i + 1,
                              Append(found, [relative_path |-> entry.path,
                                             file_type |-> Unwrap(file_type)]))
                    ELSE Walk(dir, i + 1, found)

\* a discovery that leaves the root to the walk, which reports what it meets
\* as a walk error
discover_unchecked(dir) ==
    IF dir = Missing \/ dir = NotDirectory THEN Err(<<"WalkError", <<>>>>)
    ELSE Walk(dir, 1, <<>>)

discover_templates(dir) ==
    IF dir = Missing THEN Err(<<"DirectoryNotFound", <<>>>>)
    ELSE IF dir = NotDirectory THEN Err(<<"NotADirectory", <<>>>>)
    ELSE Walk(dir, 1, <<>>)

\* std::fs::read_to_string of a discovered template
ReadToString(dir, path) ==
    LET at == {i \in 1..Len(dir[2]) : dir[2][i].path = path}
        entry == dir[2][CHOOSE i \in at : TRUE]
    IN IF entry.content = Unreadable THEN Err("io") ELSE Ok(entry.content)

(***************************************************************************)
(* validate_yaml.  In the content a piece NewLine is a line break, so the  *)
(* content is its lines, each the pieces between two breaks; no other      *)
(* piece holds a line break.  A line that is the single piece Marker is a  *)
(* three-dash line, a piece Space is white space.                          *)
(***************************************************************************)
NewLine == "\n"
Marker == "---"
Space == " "
BrokenYaml == "key: [unclosed"

RECURSIVE Lines(_)
Lines(content) ==
    LET breaks == {i \in 1..Len(content) : content[i] = NewLine}
    IN IF breaks = {} THEN <<content>>
       ELSE LET first == CHOOSE i \in breaks : \A j \in breaks : i <= j
            IN <<SubSeq(content, 1, first - 1)>>
               \o Lines(SubSeq(content, first + 1, Len(content)))

\* content.split("\n---\n"): a three-dash line separates when a line break
\* precedes it and one follows it; the matches do not overlap, so the break
\* that ends one separator does not begin the next.  `open` tells that a
\* break precedes line i, `current` holds the lines since the last
\* separator.
RECURSIVE SplitDocuments(_, _, _, _)
SplitDocuments(lines, i, open, current) ==
    IF i > Len(lines) THEN <<current>>
    ELSE IF lines[i] = <<Marker>> /\ open /\ i < Len(lines)
    THEN <<current>> \o SplitDocuments(lines, i + 1, FALSE, <<>>)
    ELSE SplitDocuments(lines, i + 1, TRUE, Append(current, lines[i]))

\* doc.trim().is_empty()
TrimIsEmpty(document) ==
    \A i \in 1..Len(document) :
        \A j \in 1..Len(document[i]) : document[i][j] = Space

\* serde_yaml::from_str::<serde_yaml::Value>(document) succeeds
YamlParses(document) ==
    \A i \in 1..Len(document) :
        \A j \in 1..Len(document[i]) : document[i][j] # BrokenYaml

\* the error of validate_yaml: the file and, when there is more than one
\* document, the number of the document that failed
YamlError(file_path, number) == <<"ProcessingError", file_path, number>>

\* a validation that numbers the documents before the empty ones are dropped
validate_numbering_all(content, file_path) ==
    LET documents == SplitDocuments(Lines(content), 1, FALSE, <<>>)
        failing == {k \in 1..Len(documents) :
                        ~TrimIsEmpty(documents[k]) /\ ~YamlParses(documents[k])}
    IN IF failing = {} THEN Ok(content)
       ELSE Err(YamlError(file_path,
                          IF Len(documents) > 1
                          THEN Some(CHOOSE k \in failing :
                                        \A j \in failing : k <= j)
                          ELSE None))

validate_yaml(content, file_path) ==
    LET NotEmpty(doc) == ~TrimIsEmpty(doc)
        documents == SelectSeq(SplitDocuments(Lines(content), 1, FALSE, <<>>),
                               NotEmpty)
        failing == {k \in 1..Len(documents) : ~YamlParses(documents[k])}
    IN IF Len(documents) = 0 \/ failing = {} THEN Ok(content)
       ELSE LET index == (CHOOSE k \in failing : \A j \in failing : k <= j) - 1
            IN Err(YamlError(file_path,
                             IF Len(documents) > 1 THEN Some(index + 1)
                             ELSE None))

\* a process_file that validates every kind of file
process_file_validating_all(vars, dir, template_file) ==
    LET template_content == ReadToString(dir, template_file.relative_path)
    IN IF ~IsOk(template_content) THEN Err("ProcessingError")
       ELSE LET processed_content == process_template(vars, template_content[2])
            IN IF ~IsOk(processed_content) THEN processed_content
               ELSE IF ~IsOk(validate_yaml(processed_content[2],
                                           template_file.relative_path))
               THEN validate_yaml(processed_content[2],
                                  template_file.relative_path)
               ELSE Ok([relative_path |-> template_file.relative_path,
                        content |-> processed_content[2]])

\* TemplateProcessor::process_file
process_file(vars, dir, template_file) ==
    LET template_content == ReadToString(dir, template_file.relative_path)
    IN IF ~IsOk(template_content) THEN Err("ProcessingError")
       ELSE LET processed_content == process_template(vars, template_content[2])
            IN IF ~IsOk(processed_content) THEN processed_content
               ELSE IF template_file.file_type = "Yaml"
                       /\ ~IsOk(validate_yaml(processed_content[2],
                                              template_file.relative_path))
               THEN validate_yaml(processed_content[2],
                                  template_file.relative_path)
               ELSE Ok([relative_path |-> template_file.relative_path,
                        content |-> processed_content[2]])

(***************************************************************************)
(* The output directory: a map from a path below the output root (the root *)
(* itself is the empty path) to a node, Dir or File(content, mode).        *)
(***************************************************************************)
OwnerOnly == 384     \* 0o600
DefaultMode == 420   \* 0o644, what a newly created file gets
Dir == <<"dir">>
File(content, mode) == <<"file", content, mode>>
Partial == <<"partial">>

Exists(fs, path) == path \in DOMAIN fs
IsDir(fs, path) == Exists(fs, path) /\ fs[path] = Dir
IsFile(fs, path) == Exists(fs, path) /\ fs[path] # Dir

Put(fs, path, node) ==
    [p \in (DOMAIN fs) \cup {path} |-> IF p = path THEN node ELSE fs[p]]

Prefixes(path) == {SubSeq(path, 1, n) : n \in 0..Len(path)}

\* fs::create_dir_all
CreateDirAll(fs, path, ok) ==
    IF ~ok \/ \E p \in Prefixes(path) : IsFile(fs, p) THEN Err("io")
    ELSE Ok([p \in (DOMAIN fs) \cup Prefixes(path) |->
                IF p \in DOMAIN fs THEN fs[p] ELSE Dir])

\* fs::write: create or truncate, then write.  The outcome is "ok", "denied"
\* (nothing was created) or "full" (the file was created, its content is
\* incomplete).  An existing file keeps its mode.
WriteOutcomes == {"ok", "denied", "full"}
ModeAfterWrite(fs, path) ==
    IF IsFile(fs, path) THEN fs[path][3] ELSE DefaultMode
FsWrite(fs, path, content, outcome) ==
    IF outcome = "denied" \/ ~IsDir(fs, Parent(path)) \/ IsDir(fs, path)
    THEN <<Err("io"), fs>>
    ELSE IF outcome = "full"
    THEN <<Err("io"), Put(fs, path, File(Partial, ModeAfterWrite(fs, path)))>>
    ELSE <<Ok(path), Put(fs, path, File(content, ModeAfterWrite(fs, path)))>>

\* permissions.set_mode(mode); fs::set_permissions(path, permissions)
SetMode(fs, path, mode) == Put(fs, path, File(fs[path][2], mode))

\* a removal that is left out
KeepFile(fs, path) == fs

\* fs::remove_file, its result ignored
RemoveFile(fs, path) ==
    IF IsFile(fs, path)
    THEN [p \in (DOMAIN fs) \ {path} |-> fs[p]]
    ELSE fs

\* a copy in place of the rename: the source stays
CopyOnto(fs, from, to) == Put(fs, to, fs[from])

\* fs::rename: the node moves onto the target and replaces what was there
Rename(fs, from, to) ==
    [p \in ((DOMAIN fs) \ {from}) \cup {to} |->
        IF p = to THEN fs[from] ELSE fs[p]]

\* an error that is dropped: the run goes on
Swallow(result, next) == next

\* the ? operator of handle_generate and write_processed_files: an error
\* ends the run, otherwise the run goes on at `next`
Propagate(result, next) == IF IsOk(result) THEN next ELSE "failed"

(***************************************************************************)
(* The inputs of a run: the domain object the API client returned, the     *)
(* override documents a variables file can hold, the paths a caller asks   *)
(* for.                                                                    *)
(***************************************************************************)
DatabaseType == [id |-> "rt-1", name |-> "database", category |-> "storage"]
AwsProvider == [id |-> "cp-1", name |-> "aws", display_name |-> "AWS"]

\* configuration maps, as HashMap entries
PortConfig == << <<K_port, VStr("5432")>> >>
TagsConfig == << <<K_tags, VObj(<< <<K_env, VStr("prod")>> >>)>> >>
MatrixConfig == << <<K_matrix, VArr(<< VArr(<< VStr("x") >>) >>)>> >>
Configurations == {PortConfig, TagsConfig, MatrixConfig}

BlueprintResource(config, description) ==
    [id |-> "res-1", name |-> "db", description |-> description,
     resource_type |-> DatabaseType, cloud_provider |-> AwsProvider,
     configuration |-> VObj(config),
     cloud_specific_properties |-> << <<K_engine, VStr("postgres")>> >>]

\* the resource with the nested configuration has no description
DescriptionFor(config) ==
    IF config = MatrixConfig THEN None ELSE Some("main database")

BlueprintResources ==
    {BlueprintResource(c, DescriptionFor(c)) : c \in Configurations}

Blueprint(resources) ==
    [id |-> "bp-1", name |-> "web-app", description |-> Some("web application"),
     resources |-> resources, supported_cloud_providers |-> <<AwsProvider>>]

Blueprints ==
    UNION {{Blueprint(rs) : rs \in [1..n -> BlueprintResources]} :
           n \in 0..MaxResources}

StackResource(config, description) ==
    [id |-> "res-1", name |-> "db", description |-> description,
     resource_type |-> DatabaseType, cloud_provider |-> AwsProvider,
     configuration |-> config]

StackResources ==
    {StackResource(c, DescriptionFor(c)) : c \in Configurations}

Stack(resources, blueprint) ==
    [id |-> "st-1", name |-> "my-web-app", description |-> None,
     cloud_name |-> "aws", stack_type |-> "INFRASTRUCTURE_ONLY",
     stack_resources |-> resources, blueprint |-> blueprint]

Stacks ==
    UNION {{Stack(rs, bp) : rs \in [1..n -> StackResources],
                            bp \in {None, Some(Blueprint(<<>>))}} :
           n \in 0..MaxResources}

DomainObjects ==
    {<<"blueprint", bp>> : bp \in Blueprints}
    \cup {<<"stack", st>> : st \in Stacks}

\* override documents: the root object of a variables file
OverrideDocs ==
    { VObj(<< <<K_region, VStr("us-east-1")>> >>),
      VObj(<< <<K_blueprint, VObj(<< <<K_name, VStr("custom")>> >>)>> >>),
      VObj(<< <<Path2(K_blueprint, K_name), VStr("custom")>> >>),
      VObj(<< <<K_resources, VArr(<< VObj(<< <<K_name, VStr("cache")>> >>) >>)>> >>),
      VObj(<< <<K_resources, VObj(<< <<K_name, VStr("none")>> >>)>> >>),
      VObj(<< <<K_supported_cloud_providers, VStr("aws-only")>> >>),
      VObj(<< <<K_tags, VArr(<< VStr("a"), VStr("b") >>)>> >>),
      VObj(<< <<K_matrix, VArr(<< VArr(<< VStr("x") >>) >>)>>,
              <<K_env, VObj(<< <<K_region, VStr("eu")>> >>)>> >>) }

\* what a caller may write after a root key: well-formed, out-of-range and
\* malformed indices
IndexSuffixes ==
    { <<>>, <<"[", "0", "]">>, <<"[", "1", "]">>, <<"[", "7", "]">>,
      <<"[", "x", "]">>, <<"[", "-", "1", "]">>, <<"[", "]">>,
      <<"[", "0">>, <<"[">>, <<"[", "0", "]", "[", "0", "]">>,
      <<"[", "+", "0", "]">> }
FieldSuffixes == { <<>>, <<Dot>> \o K_name }
QueryRoots == {K_resources, K_tags}
QueryPaths ==
    {root \o ix \o fs : root \in QueryRoots, ix \in IndexSuffixes,
                        fs \in FieldSuffixes}

\* the templates rendered against the store
K_missing == <<"m", "i", "s", "s", "i", "n", "g">>
K_path == <<"p", "a", "t", "h">>
Zero == <<"0">>
Seven == <<"7">>

\* "{{resources.0.name}}:{{resources.0.cloud_specific_properties.engine}}"
T_scenario ==
    << Var(<<K_resources, Zero, K_name>>), Lit(":"),
       Var(<<K_resources, Zero, K_cloud_specific_properties, K_engine>>) >>
\* "{{missing.path}}"
T_missing == << Var(<<K_missing, K_path>>) >>
\* "# {{blueprint.name}}"
T_heading == << Lit("# "), Var(<<K_blueprint, K_name>>) >>
\* "{{resources.name}}"
T_named == << Var(<<K_resources, K_name>>) >>
\* "{{resources.7.name}}"
T_beyond == << Var(<<K_resources, Seven, K_name>>) >>
\* "region: {{region}}"
T_region == << Lit("region: "), Var(<<K_region>>) >>
\* "{{stack_resources.0.configuration.port}}"
T_port == << Var(<<K_stack_resources, Zero, K_configuration, K_port>>) >>
\* "key: [unclosed"
T_broken == << Lit(BrokenYaml) >>

Templates ==
    {T_scenario, T_missing, T_heading, T_named, T_beyond, T_region, T_port,
     Malformed}

\* file names
F_a_tf == <<"a", ".", "t", "f">>
F_b_yaml == <<"b", ".", "y", "a", "m", "l">>
F_c_json == <<"c", ".", "j", "s", "o", "n">>
F_d_TF == <<"d", ".", "T", "F">>
F_e_txt == <<"e", ".", "t", "x", "t">>
F_n == <<"n">>
F_a_tmp == <<"a", ".", "t", "m", "p">>
D_sub == <<"s", "u", "b">>
D_hidden == <<".", "h">>

\* template directories
TreeNested ==
    Directory(<< Entry(<<F_a_tf>>, "file", T_heading),
                 Entry(<<D_hidden>>, "dir", <<>>),
                 Entry(<<D_hidden, F_c_json>>, "file", T_missing),
                 Entry(<<F_e_txt>>, "file", T_missing),
                 Entry(<<F_n>>, "file", T_missing),
                 Entry(<<D_sub>>, "dir", <<>>),
                 Entry(<<D_sub, F_b_yaml>>, "file", T_region) >>)
TreeBroken ==
    Directory(<< Entry(<<F_a_tf>>, "file", T_scenario),
                 Entry(<<F_b_yaml>>, "file", T_broken),
                 Entry(<<F_c_json>>, "file", T_missing) >>)
TreeMalformed ==
    Directory(<< Entry(<<F_d_TF>>, "file", Malformed),
                 Entry(<<F_c_json>>, "file", Unreadable) >>)
TreeUnrecognized ==
    Directory(<< Entry(<<F_e_txt>>, "file", T_missing) >>)
TreeDenied ==
    Directory(<< Entry(<<F_a_tf>>, "file", T_heading),
                 Entry(<<D_sub>>, "denied", <<>>) >>)
TreeShared ==
    Directory(<< Entry(<<D_sub>>, "dir", <<>>),
                 Entry(<<D_sub, F_b_yaml>>, "file", T_region),
                 Entry(<<D_sub, F_c_json>>, "file", T_scenario) >>)
TemplateDirs ==
    {TreeNested, TreeBroken, TreeMalformed, TreeUnrecognized, TreeDenied,
     TreeShared, Missing}

\* output directories before the run: still to be created; holding an
\* earlier output and a file named like a temporary one; holding a file
\* where the templates have a directory
OutAbsent == <<>>
OutEarlier ==
    Put(Put(Put(OutAbsent, <<>>, Dir),
            <<F_a_tf>>, File(<<"old">>, DefaultMode)),
        <<F_a_tmp>>, File(<<"keep">>, DefaultMode))
OutBlocked ==
    Put(Put(OutAbsent, <<>>, Dir), <<D_sub>>, File(<<"old">>, DefaultMode))
OutputDirs == {OutAbsent, OutEarlier, OutBlocked}

Platforms == {"unix", "other"}

\* the domain objects of the runs that go on to generate files
GenerateDomains ==
    { <<"blueprint",
        Blueprint(<< BlueprintResource(PortConfig, Some("main database")) >>)>>,
      <<"stack",
        Stack(<< StackResource(PortConfig, Some("main database")) >>, None)>> }

(***************************************************************************)
(* Initial states.  Every run starts before the API call with an empty     *)
(* context; the three specifications differ in the inputs they draw.       *)
(***************************************************************************)
vars == <<domain, tree, platform, pc, variables, warnings, before, merged,
          lookup, rendered, template_files, processed_files, written_files,
          wstep, outfs, overwrites, lastWrite, error, call, events>>

Start ==
    /\ pc = "new"
    /\ variables = EmptyContext
    /\ warnings = <<>>
    /\ before = EmptyContext
    /\ merged = None
    /\ lookup = None
    /\ rendered = <<>>
    /\ template_files = <<>>
    /\ processed_files = <<>>
    /\ written_files = <<>>
    /\ wstep = "ensure"
    /\ overwrites = <<>>
    /\ lastWrite = None
    /\ error = None
    /\ call = None
    /\ events = <<>>

Init ==
    /\ domain \in DomainObjects
    /\ tree = Missing
    /\ platform = "unix"
    /\ outfs = OutAbsent
    /\ Start

GenerateInit ==
    /\ domain \in GenerateDomains
    /\ tree \in TemplateDirs
    /\ platform \in Platforms
    /\ outfs \in OutputDirs
    /\ Start

inputs == <<domain, tree, platform>>
store == <<variables, warnings, before, merged>>
batch == <<template_files, processed_files, written_files, wstep, outfs,
           overwrites, lastWrite>>

Event(stage, index) == <<stage, index>>

(***************************************************************************)
(* The context: builder, merge, get.                                       *)
(***************************************************************************)
\* VariableContextBuilder::from_blueprint on the fetched blueprint
FromBlueprint ==
    /\ pc = "new"
    /\ domain[1] = "blueprint"
    /\ variables' = from_blueprint(domain[2])
    /\ pc' = "built"
    /\ events' = Append(events, Event("build", 0))
    /\ UNCHANGED <<inputs, call, warnings, before, merged, lookup, rendered, batch,
                   error>>

\* VariableContextBuilder::from_stack on the fetched stack
FromStack ==
    /\ pc = "new"
    /\ domain[1] = "stack"
    /\ variables' = from_stack(domain[2])
    /\ pc' = "built"
    /\ events' = Append(events, Event("build", 0))
    /\ UNCHANGED <<inputs, call, warnings, before, merged, lookup, rendered, batch,
                   error>>

\* merge_custom_variables with a readable, well-formed file whose root is doc;
\* a run merges at most one variables file
MergeCustomVariables(doc) ==
    /\ pc = "built"
    /\ LET ms == flatten_and_merge(MergeState(variables, <<>>), <<>>, doc)
       IN /\ variables' = ms.vars
          /\ warnings' = warnings \o ms.warns
    /\ before' = variables
    /\ merged' = Some(doc)
    /\ pc' = "merged"
    /\ events' = Append(events, Event("merge", 0))
    /\ UNCHANGED <<inputs, call, lookup, rendered, batch, error>>

\* VariableContext::get
Get(path) ==
    /\ pc \in {"built", "merged"}
    /\ lookup' = <<path, get(variables, path)>>
    /\ UNCHANGED <<inputs, call, pc, store, rendered, batch, error, events>>

Next ==
    \/ FromBlueprint
    \/ FromStack
    \/ \E doc \in OverrideDocs : MergeCustomVariables(doc)
    \/ \E path \in QueryPaths : Get(path)

Spec == Init /\ [][Next]_vars

(***************************************************************************)
(* Rendering templates against the context.                                *)
(***************************************************************************)
\* TemplateProcessor::new(&context).process_template(template)
ProcessTemplate(template) ==
    /\ pc \in {"built", "merged"}
    /\ Len(rendered) < MaxRenders
    /\ rendered' = Append(rendered,
                          <<template, variables,
                            process_template(variables, template)>>)
    /\ UNCHANGED <<inputs, call, pc, store, lookup, batch, error, events>>

RenderNext ==
    \/ FromBlueprint
    \/ FromStack
    \/ \E doc \in OverrideDocs : MergeCustomVariables(doc)
    \/ \E template \in Templates : ProcessTemplate(template)

RenderSpec == Init /\ [][RenderNext]_vars

(***************************************************************************)
(* handle_generate: fetch and build, merge, discover, process every file,  *)
(* write every file.                                                       *)
(***************************************************************************)
Fail(kind) ==
    /\ pc' = "failed"
    /\ error' = Some(kind)

\* api_client.get_blueprint / get_stack returns an error
FetchFails ==
    /\ pc = "new"
    /\ Fail("ApiError")
    /\ events' = Append(events, Event("error", 0))
    /\ UNCHANGED <<inputs, call, store, lookup, rendered, batch>>

\* merge_custom_variables returns an error: the file cannot be read or
\* parsed, or its root is not an object; the context is as it was
MergeFails ==
    /\ pc = "built"
    /\ Fail("VariableFileError")
    /\ events' = Append(events, Event("merge", 0)) \o <<Event("error", 0)>>
    /\ UNCHANGED <<inputs, call, store, lookup, rendered, batch>>

\* discover_templates and the check that it found a template
DiscoverTemplates ==
    /\ pc \in {"built", "merged"}
    /\ LET found == discover_templates(tree)
           result == IF IsOk(found) /\ Len(found[2]) = 0
                     THEN Err("DiscoveryError") ELSE found
       IN /\ pc' = Propagate(result, "processing")
          /\ error' = IF IsOk(result) THEN error ELSE Some("DiscoveryError")
          /\ template_files' = IF IsOk(result) THEN result[2] ELSE template_files
          /\ events' = Append(events, Event("discover", 0))
                       \o (IF IsOk(result) THEN <<>> ELSE <<Event("error", 0)>>)
    /\ UNCHANGED <<inputs, call, store, lookup, rendered, processed_files,
                   written_files, wstep, outfs, overwrites, lastWrite>>

\* each file written as soon as it is rendered
WriteAtOnce(done, total) == "writing"

\* one turn of the loop over template_files: process_file, push
AfterProcessing(done, total) ==
    IF done = total THEN "writing" ELSE "processing"

\* a processor that keeps what it rendered in the context
ProcessFileCaching ==
    /\ pc = "processing"
    /\ LET i == Len(processed_files) + 1
           result == process_file(variables, tree, template_files[i])
       IN /\ pc' = Propagate(result, AfterProcessing(i, Len(template_files)))
          /\ error' = IF IsOk(result) THEN error ELSE Some(result[2])
          /\ processed_files' = IF IsOk(result)
                                THEN Append(processed_files, result[2])
                                ELSE processed_files
          /\ events' = Append(events, Event("render", i))
                       \o (IF IsOk(result) THEN <<>> ELSE <<Event("error", 0)>>)
    /\ variables' = Insert(variables, K_path, VNull)
    /\ UNCHANGED <<inputs, call, warnings, before, merged, lookup, rendered,
                   template_files, written_files, wstep, outfs, overwrites,
                   lastWrite>>

ProcessFile ==
    /\ pc = "processing"
    /\ LET i == Len(processed_files) + 1
           result == process_file(variables, tree, template_files[i])
       IN /\ pc' = Propagate(result, AfterProcessing(i, Len(template_files)))
          /\ error' = IF IsOk(result) THEN error ELSE Some(result[2])
          /\ processed_files' = IF IsOk(result)
                                THEN Append(processed_files, result[2])
                                ELSE processed_files
          /\ events' = Append(events, Event("render", i))
                       \o (IF IsOk(result) THEN <<>> ELSE <<Event("error", 0)>>)
    /\ UNCHANGED <<inputs, call, store, lookup, rendered, template_files,
                   written_files, wstep, outfs, overwrites, lastWrite>>

(***************************************************************************)
(* write_processed_files, one file at a time, and write_with_warning, one  *)
(* file system call at a time.  The file being written is the first one    *)
(* not yet in written_files.                                               *)
(***************************************************************************)
Current == processed_files[Len(written_files) + 1]
\* an output path that keeps the file name only
FlatOutputPath == <<FileName(Current.relative_path)>>
OutputPath == Current.relative_path

\* ensure_directory_exists(parent)
EnsureDirectory(ok) ==
    /\ pc = "writing"
    /\ wstep = "ensure"
    /\ LET parent == Parent(OutputPath)
           result == IF Exists(outfs, parent) THEN Ok(outfs)
                     ELSE CreateDirAll(outfs, parent, ok)
       IN /\ pc' = Propagate(result, "writing")
          /\ error' = IF IsOk(result) THEN error ELSE Some("IoError")
          /\ outfs' = IF IsOk(result) THEN result[2] ELSE outfs
          /\ wstep' = IF IsOk(result) THEN "temp" ELSE wstep
          /\ events' = Append(events, Event("write", Len(written_files) + 1))
                       \o (IF IsOk(result) THEN <<>> ELSE <<Event("error", 0)>>)
    /\ lastWrite' = None
    /\ UNCHANGED <<inputs, call, store, lookup, rendered, template_files,
                   processed_files, written_files, overwrites>>

\* the warning when the target exists, then fs::write(&temp_path, content)
WriteTemp(outcome) ==
    /\ pc = "writing"
    /\ wstep = "temp"
    /\ overwrites' = IF Exists(outfs, OutputPath)
                     THEN Append(overwrites, OutputPath) ELSE overwrites
    /\ LET written == FsWrite(outfs, TempPath(OutputPath), Current.content,
                              outcome)
       IN /\ pc' = Propagate(written[1], "writing")
          /\ error' = IF IsOk(written[1]) THEN error ELSE Some("IoError")
          /\ outfs' = written[2]
          /\ wstep' = IF ~IsOk(written[1]) THEN wstep
                      ELSE IF platform = "unix" THEN "perm" ELSE "rename"
          /\ events' = IF IsOk(written[1]) THEN events
                       ELSE Append(events, Event("error", 0))
    /\ UNCHANGED <<inputs, call, store, lookup, rendered, template_files,
                   processed_files, written_files, lastWrite>>

\* #[cfg(unix)]: fs::metadata, set_mode(0o600), fs::set_permissions
SetPermissions(ok) ==
    /\ pc = "writing"
    /\ wstep = "perm"
    /\ LET result == IF ok THEN Ok(SetMode(outfs, TempPath(OutputPath), OwnerOnly))
                     ELSE Err("IoError")
       IN /\ pc' = Propagate(result, "writing")
          /\ error' = IF ok THEN error ELSE Some("IoError")
          /\ outfs' = IF ok THEN result[2] ELSE outfs
          /\ wstep' = IF ok THEN "rename" ELSE wstep
          /\ events' = IF ok THEN events ELSE Append(events, Event("error", 0))
    /\ UNCHANGED <<inputs, call, store, lookup, rendered, template_files,
                   processed_files, written_files, overwrites, lastWrite>>

\* fs::rename(&temp_path, path), on its failure fs::remove_file(&temp_path);
\* then written_files.push(output_path)
AfterWriting(done, total) ==
    IF done = total THEN "done" ELSE "writing"

RenameTemp(ok) ==
    /\ pc = "writing"
    /\ wstep = "rename"
    /\ LET temp_path == TempPath(OutputPath)
           result == IF ok /\ ~IsDir(outfs, OutputPath)
                     THEN Ok(Rename(outfs, temp_path, OutputPath))
                     ELSE Err("IoError")
           count == Len(written_files) + 1
       IN /\ pc' = Propagate(result, AfterWriting(count, Len(processed_files)))
          /\ error' = IF IsOk(result) THEN error ELSE Some("IoError")
          /\ outfs' = IF IsOk(result) THEN result[2]
                      ELSE RemoveFile(outfs, temp_path)
          /\ written_files' = IF IsOk(result)
                              THEN Append(written_files, OutputPath)
                              ELSE written_files
          /\ lastWrite' = IF IsOk(result)
                          THEN Some(<<OutputPath, Current.content>>)
                          ELSE None
          /\ wstep' = IF IsOk(result) THEN "ensure" ELSE wstep
          /\ events' = IF IsOk(result) THEN events
                       ELSE Append(events, Event("error", 0))
    /\ UNCHANGED <<inputs, call, store, lookup, rendered, template_files,
                   processed_files, overwrites>>

GenerateNext ==
    \/ FromBlueprint
    \/ FromStack
    \/ FetchFails
    \/ \E doc \in OverrideDocs : MergeCustomVariables(doc)
    \/ MergeFails
    \/ DiscoverTemplates
    \/ ProcessFile
    \/ \E ok \in BOOLEAN : EnsureDirectory(ok)
    \/ \E outcome \in WriteOutcomes : WriteTemp(outcome)
    \/ \E ok \in BOOLEAN : SetPermissions(ok)
    \/ \E ok \in BOOLEAN : RenameTemp(ok)

GenerateSpec == GenerateInit /\ [][GenerateNext]_vars

(***************************************************************************)
(* discover_templates on its own, over the directories made of any part of *)
(* a fixed listing (an entry only together with the directory it lies in), *)
(* under a root whose own name is plain or hidden.                         *)
(***************************************************************************)
F_g_yml == <<".", "g", ".", "y", "m", "l">>
F_x == <<"x">>
F_y == <<"y">>
F_z == <<"z">>
D_m_tf == <<"m", ".", "t", "f">>

Listing ==
    << Entry(<<F_a_tf>>, "file", T_heading),
       Entry(<<F_d_TF>>, "file", T_missing),
       Entry(<<F_e_txt>>, "file", T_missing),
       Entry(<<F_n>>, "file", T_missing),
       Entry(<<F_g_yml>>, "file", T_region),
       Entry(<<D_hidden>>, "dir", <<>>),
       Entry(<<D_hidden, F_c_json>>, "file", T_missing),
       Entry(<<D_hidden, F_z>>, "denied", <<>>),
       Entry(<<D_m_tf>>, "dir", <<>>),
       Entry(<<D_sub>>, "dir", <<>>),
       Entry(<<D_sub, F_b_yaml>>, "file", T_region),
       Entry(<<D_sub, F_x>>, "denied", <<>>),
       Entry(<<D_sub, F_y>>, "failed", <<>>) >>

\* the parts of the listing that are directories: every entry has the
\* directory it lies in
Closed(part) ==
    \A i \in part :
        Len(Listing[i].path) > 1 =>
            \E j \in part : /\ Listing[j].kind = "dir"
                            /\ Listing[j].path = Parent(Listing[i].path)

RECURSIVE Select(_, _)
Select(part, i) ==
    IF i > Len(Listing) THEN <<>>
    ELSE (IF i \in part THEN <<Listing[i]>> ELSE <<>>) \o Select(part, i + 1)

RootNames == {DefaultRoot, <<".", "t">>}

WalkedDirs ==
    {DirectoryNamed(name, Select(part, 1)) :
        name \in RootNames,
        part \in {p \in SUBSET (1..Len(Listing)) : Closed(p)}}
    \cup {Missing, NotDirectory}

DiscoveryInit ==
    /\ domain \in GenerateDomains
    /\ tree \in WalkedDirs
    /\ platform = "unix"
    /\ outfs = OutAbsent
    /\ Start

\* TemplateDiscovery::new(tree).discover_templates()
Discover ==
    /\ call = None
    /\ call' = <<"discover_templates", tree, discover_templates(tree)>>
    /\ UNCHANGED <<inputs, pc, store, lookup, rendered, batch, error, events>>

DiscoveryNext == Discover

DiscoverySpec == DiscoveryInit /\ [][DiscoveryNext]_vars

(***************************************************************************)
(* The suggestions for a variable that was not found.  Names are compared  *)
(* as Rust compares strings, byte by byte; CharOrder lists the characters  *)
(* that names here are spelled with in the order of their codes.           *)
(***************************************************************************)
CharOrder ==
    << ".", "0", "1", "2", "3", "4", "5", "6", "7", "8", "9", "[", "]", "_",
       "a", "b", "c", "d", "e", "f", "g", "h", "i", "j", "k", "l", "m", "n",
       "o", "p", "q", "r", "s", "t", "u", "v", "w", "x", "y", "z" >>
CharCode(c) == CHOOSE i \in 1..Len(CharOrder) : CharOrder[i] = c

Min(a, b) == IF a <= b THEN a ELSE b

\* String::cmp
StringLess(a, b) ==
    LET differ == {i \in 1..Min(Len(a), Len(b)) : a[i] # b[i]}
    IN IF differ = {} THEN Len(a) < Len(b)
       ELSE LET first == CHOOSE i \in differ : \A j \in differ : i <= j
            IN CharCode(a[first]) < CharCode(b[first])

\* VariableContext::list_all: the keys, sorted
RECURSIVE SortStrings(_)
SortStrings(names) ==
    IF names = {} THEN <<>>
    ELSE LET least == CHOOSE a \in names :
                         \A b \in names : a = b \/ StringLess(a, b)
         IN <<least>> \o SortStrings(names \ {least})
list_all(context) == SortStrings(DOMAIN context)

\* str::contains
StrContains(s, pattern) ==
    \E i \in 0..(Len(s) - Len(pattern)) :
        SubSeq(s, i + 1, i + Len(pattern)) = pattern

\* TemplateProcessor::levenshtein_distance: the matrix of the source,
\* filled row by row and, in a row, cell by cell.  A row is kept as the
\* sequence of its cells, cell j of the matrix at place j + 1.  FillRow
\* adds the cells lo..hi to `row`, the cells of row i + 1 filled so far,
\* from `above`, row i; FillMatrix goes from row `lo` to row `hi`.  Both
\* halve their range and fill the first half before the second, which is
\* the order of the loops: after cell mid a row has mid + 1 cells, and row
\* mid begins with mid.
RECURSIVE FillRow(_, _, _, _, _, _)
FillRow(above, c1, s2, row, lo, hi) ==
    IF lo > hi THEN row
    ELSE IF lo = hi
    THEN LET cost == IF c1 = s2[lo] THEN 0 ELSE 1
         IN Append(row, Min(Min(above[lo + 1] + 1, row[lo] + 1),
                            above[lo] + cost))
    ELSE LET mid == (lo + hi) \div 2
             left == FillRow(above, c1, s2, row, lo, mid)
         IN IF Len(left) <= mid THEN left
            ELSE FillRow(above, c1, s2, left, mid + 1, hi)

RECURSIVE FillMatrix(_, _, _, _, _)
FillMatrix(s1, s2, above, lo, hi) ==
    IF lo > hi THEN above
    ELSE IF lo = hi THEN FillRow(above, s1[lo], s2, <<lo>>, 1, Len(s2))
    ELSE LET mid == (lo + hi) \div 2
             upper == FillMatrix(s1, s2, above, lo, mid)
         IN IF upper[1] # mid THEN upper
            ELSE FillMatrix(s1, s2, upper, mid + 1, hi)

\* char::len_utf8 and str::len: a string is the sequence of its characters,
\* its length is counted in bytes
E_acute == "é"
Utf8Len(c) == IF c = E_acute THEN 2 ELSE 1
RECURSIVE ByteLen(_)
ByteLen(s) == IF s = <<>> THEN 0 ELSE Utf8Len(Head(s)) + ByteLen(Tail(s))

\* The matrix has a row for every byte of s1 and a column for every byte of
\* s2; the loops fill a row for every character of s1 and, in it, a cell
\* for every character of s2.  A cell that is neither filled nor in the
\* first row or column is the 0 the matrix was made with.
levenshtein_distance(s1, s2) ==
    LET len1 == ByteLen(s1)
        len2 == ByteLen(s2)
        last == FillMatrix(s1, s2, [j \in 1..(Len(s2) + 1) |-> j - 1], 1, Len(s1))
    IN IF len1 = 0 THEN len2
       ELSE IF len2 = 0 THEN len1
       ELSE IF len1 = Len(s1) /\ len2 = Len(s2) THEN last[len2 + 1]
       ELSE 0

\* TemplateProcessor::is_similar
is_similar(search, candidate) ==
    LET search_lower == ToLowercase(search)
        candidate_lower == ToLowercase(candidate)
    IN IF search_lower = candidate_lower THEN TRUE
       ELSE IF StrContains(candidate_lower, search_lower)
               \/ StrContains(search_lower, candidate_lower)
       THEN TRUE
       ELSE IF Len(search_lower) >= 3 /\ Len(candidate_lower) >= 3
               /\ SubSeq(search_lower, 1, 3) = SubSeq(candidate_lower, 1, 3)
       THEN TRUE
       ELSE levenshtein_distance(search_lower, candidate_lower) <= 2

\* Iterator::take
Take(s, n) == SubSeq(s, 1, Min(n, Len(s)))

MaxSuggestions == 5
MaxSamples == 10

\* TemplateProcessor::suggest_similar_variables: <<"none">> when the store
\* is empty, <<"sample", names>> when nothing is similar, else
\* <<"similar", names>>
suggest_similar_variables(context, var_name) ==
    LET all_vars == list_all(context)
        Similar(name) == is_similar(var_name, name)
        suggestions == Take(SelectSeq(all_vars, Similar), MaxSuggestions)
    IN IF Len(all_vars) = 0 THEN <<"none", <<>>>>
       ELSE IF Len(suggestions) = 0
       THEN <<"sample", Take(all_vars, MaxSamples)>>
       ELSE <<"similar", SortStrings({suggestions[i] : i \in 1..Len(suggestions)})>>

(***************************************************************************)
(* process_file and validate_yaml on their own.                            *)
(***************************************************************************)
MaxLines == 5

F_k_YML == <<"k", ".", "Y", "M", "L">>
Plain == "x"

\* "region: {{region}}\n---\nkey: [unclosed"
T_documents ==
    << Lit("region: "), Var(<<K_region>>), Lit(NewLine), Lit(Marker),
       Lit(NewLine), Lit(BrokenYaml) >>

LineKinds == { <<>>, <<Space>>, <<Marker>>, <<Plain>>, <<BrokenYaml>> }

RECURSIVE Join(_)
Join(lines) ==
    IF Len(lines) = 1 THEN lines[1]
    ELSE lines[1] \o <<NewLine>> \o Join(Tail(lines))

\* a three-dash line that separates nothing is a document marker of YAML;
\* the contents examined keep it to the first line of a document that holds
\* more than the marker
WellMarked(content) ==
    LET documents == SplitDocuments(Lines(content), 1, FALSE, <<>>)
    IN \A k \in 1..Len(documents) :
           /\ \A i \in 2..Len(documents[k]) : documents[k][i] # <<Marker>>
           /\ Len(documents[k]) > 0 /\ documents[k][1] = <<Marker>>
                  => ~TrimIsEmpty(Tail(documents[k]))

Contents ==
    { content \in { Join(lines) :
                        lines \in UNION { [1..n -> LineKinds] : n \in 1..MaxLines } } :
        WellMarked(content) }

ValidatedPaths == { <<F_b_yaml>>, <<D_sub, F_k_YML>> }

FileNames == { F_a_tf, F_b_yaml, F_c_json, F_d_TF, F_k_YML }
FileContents ==
    { T_broken, T_region, T_scenario, T_missing, T_documents, T_named,
      Malformed, Unreadable }

\* the store a generate run hands to the processor
ContextOf(object) ==
    IF object[1] = "blueprint" THEN from_blueprint(object[2])
    ELSE from_stack(object[2])

FileInit ==
    /\ domain \in GenerateDomains
    /\ tree = Missing
    /\ platform = "unix"
    /\ outfs = OutAbsent
    /\ Start

\* processor.validate_yaml(content, file_path)
ValidateYaml(content, file_path) ==
    /\ call = None
    /\ call' = <<"validate_yaml", <<content, file_path>>,
                 validate_yaml(content, file_path)>>
    /\ UNCHANGED <<inputs, pc, store, lookup, rendered, batch, error, events>>

\* processor.process_file(template_file) for the one file of a directory
ProcessOneFile(name, content) ==
    /\ call = None
    /\ LET dir == Directory(<< Entry(<<name>>, "file", content) >>)
           template_file == discover_templates(dir)[2][1]
       IN call' = <<"process_file", <<dir, template_file>>,
                    process_file(ContextOf(domain), dir, template_file)>>
    /\ UNCHANGED <<inputs, pc, store, lookup, rendered, batch, error, events>>

FileNext ==
    \/ \E content \in Contents, file_path \in ValidatedPaths :
           ValidateYaml(content, file_path)
    \/ \E name \in FileNames, content \in FileContents :
           ProcessOneFile(name, content)

FileSpec == FileInit /\ [][FileNext]_vars

(***************************************************************************)
(* enhance_template_error.  The message of the render error is its text,   *)
(* character by character; the template content is its lines.  The error   *)
(* made is <<"TemplateSyntaxError", line, source line>>,                    *)
(* <<"VariableNotFoundError", variable, suggestion>> or                     *)
(* <<"ProcessingError", message>>.                                          *)
(***************************************************************************)
\* str::find(pattern): the 1-based position of the first match, 0 when
\* there is none
FindText(s, pattern) ==
    LET at == {i \in 1..(Len(s) - Len(pattern) + 1) :
                  SubSeq(s, i, i + Len(pattern) - 1) = pattern}
    IN IF at = {} THEN 0 ELSE CHOOSE i \in at : \A j \in at : i <= j

\* str::find(predicate) over the characters of a set
FindAny(s, set) ==
    LET at == {i \in 1..Len(s) : s[i] \in set}
    IN IF at = {} THEN 0 ELSE CHOOSE i \in at : \A j \in at : i <= j

\* str::find(|c| !c.is_numeric())
FindNotNumeric(s) ==
    LET at == {i \in 1..Len(s) : s[i] \notin DigitChars}
    IN IF at = {} THEN 0 ELSE CHOOSE i \in at : \A j \in at : i <= j

S_line == <<"l", "i", "n", "e", " ">>
S_quote == "\""
S_variable == <<"v", "a", "r", "i", "a", "b", "l", "e", " ">>
S_Variable == <<"V", "a", "r", "i", "a", "b", "l", "e", " ">>
NotFoundLine == "<line not found>"

\* TemplateProcessor::extract_line_number
extract_line_number(error_msg) ==
    LET start == FindText(error_msg, S_line)
        rest == SubSeq(error_msg, start + Len(S_line), Len(error_msg))
        end == FindNotNumeric(rest)
    IN IF start = 0 THEN None
       ELSE IF end = 0 THEN None
       ELSE IF ParseUsize(SubSeq(rest, 1, end - 1)) < 0 THEN None
       ELSE Some(ParseUsize(SubSeq(rest, 1, end - 1)))

\* TemplateProcessor::get_template_line
get_template_line(template_content, line_num) ==
    LET nth == IF line_num = 0 THEN 0 ELSE line_num - 1
    IN IF nth < Len(template_content) THEN template_content[nth + 1]
       ELSE NotFoundLine

\* the second and third attempt of extract_variable_name: the text after
\* a prefix, up to white space or a colon
RECURSIVE AfterPrefix(_, _, _)
AfterPrefix(error_msg, prefixes, i) ==
    IF i > Len(prefixes) THEN None
    ELSE LET start == FindText(error_msg, prefixes[i])
             rest == SubSeq(error_msg, start + Len(prefixes[i]), Len(error_msg))
             end == FindAny(rest, {" ", ":"})
         IN IF start # 0 /\ end # 0 THEN Some(SubSeq(rest, 1, end - 1))
            ELSE AfterPrefix(error_msg, prefixes, i + 1)

\* TemplateProcessor::extract_variable_name
extract_variable_name(error_msg) ==
    LET start == Find(error_msg, S_quote)
        rest == SubSeq(error_msg, start + 1, Len(error_msg))
        end == Find(rest, S_quote)
    IN IF start # 0 /\ end # 0 THEN Some(SubSeq(rest, 1, end - 1))
       ELSE AfterPrefix(error_msg, <<S_variable, S_Variable>>, 1)

S_lineWord == <<"l", "i", "n", "e">>
S_column == <<"c", "o", "l", "u", "m", "n">>
S_not_found == <<"n", "o", "t", " ", "f", "o", "u", "n", "d">>
S_undefined == <<"u", "n", "d", "e", "f", "i", "n", "e", "d">>

\* an enhancement that looks for a variable name first
enhance_names_first(context, error_msg, template_content) ==
    IF (StrContains(error_msg, S_not_found) \/ StrContains(error_msg, S_undefined))
       /\ extract_variable_name(error_msg) # None
    THEN LET var_name == Unwrap(extract_variable_name(error_msg))
         IN <<"VariableNotFoundError", var_name,
              suggest_similar_variables(context, var_name)>>
    ELSE IF (StrContains(error_msg, S_lineWord) \/ StrContains(error_msg, S_column))
            /\ extract_line_number(error_msg) # None
    THEN LET line_num == Unwrap(extract_line_number(error_msg))
         IN <<"TemplateSyntaxError", line_num,
              get_template_line(template_content, line_num)>>
    ELSE <<"ProcessingError", error_msg>>

\* TemplateProcessor::enhance_template_error
enhance_template_error(context, error_msg, template_content) ==
    IF (StrContains(error_msg, S_lineWord) \/ StrContains(error_msg, S_column))
       /\ extract_line_number(error_msg) # None
    THEN LET line_num == Unwrap(extract_line_number(error_msg))
         IN <<"TemplateSyntaxError", line_num,
              get_template_line(template_content, line_num)>>
    ELSE IF (StrContains(error_msg, S_not_found) \/ StrContains(error_msg, S_undefined))
            /\ extract_variable_name(error_msg) # None
    THEN LET var_name == Unwrap(extract_variable_name(error_msg))
         IN <<"VariableNotFoundError", var_name,
              suggest_similar_variables(context, var_name)>>
    ELSE <<"ProcessingError", error_msg>>

(***************************************************************************)
(* The error enhancement on its own: the store is the one a generate run   *)
(* builds for the domain object.                                           *)
(***************************************************************************)
Typo == "x"

\* the names one edit away from a name: a character left out, replaced by
\* Typo, or Typo put in
Edits(name) ==
    { SubSeq(name, 1, i - 1) \o SubSeq(name, i + 1, Len(name)) :
        i \in 1..Len(name) }
    \cup { SubSeq(name, 1, i - 1) \o <<Typo>> \o SubSeq(name, i + 1, Len(name)) :
        i \in 1..Len(name) }
    \cup { SubSeq(name, 1, i) \o <<Typo>> \o SubSeq(name, i + 1, Len(name)) :
        i \in 0..Len(name) }

\* the names a template may ask for that the store does not hold
FailedNames(context) ==
    UNION { Edits(name) : name \in DOMAIN context } \ DOMAIN context

MaxWords == 3

\* pieces of the messages examined
Words ==
    { <<"l", "i", "n", "e", " ", "3", ",">>,
      <<"l", "i", "n", "e", " ", "3">>,
      <<"l", "i", "n", "e", " ", "7", ",">>,
      <<"l", "i", "n", "e", " ", "x">>,
      S_not_found, S_undefined, <<S_quote>>,
      <<"v", "a", "r", "i", "a", "b", "l", "e", " ", "n", "m", "e", ":">>,
      <<"V", "a", "r", "i", "a", "b", "l", "e", " ", "n", "m", "e", " ">>,
      <<"v", "a", "r", "i", "a", "b", "l", "e", " ", "n", "m", "e">> }

RECURSIVE Concat(_)
Concat(words) ==
    IF Len(words) = 0 THEN <<>> ELSE words[1] \o Concat(Tail(words))

Messages ==
    { Concat(words) : words \in UNION { [1..n -> Words] : n \in 0..MaxWords } }

\* the lines of the template whose rendering failed
SourceLines == << "{{#if a}}", "", "{{name" >>

ErrorInit ==
    /\ domain \in GenerateDomains
    /\ tree = Missing
    /\ platform = "unix"
    /\ outfs = OutAbsent
    /\ Start

\* processor.suggest_similar_variables(var_name)
Suggest ==
    /\ call = None
    /\ \E var_name \in FailedNames(ContextOf(domain)) :
           call' = <<"suggest_similar_variables", var_name,
                     suggest_similar_variables(ContextOf(domain), var_name)>>
    /\ UNCHANGED <<inputs, pc, store, lookup, rendered, batch, error, events>>

\* processor.enhance_template_error(error, template_content)
EnhanceTemplateError ==
    /\ call = None
    /\ \E error_msg \in Messages :
           call' = <<"enhance_template_error", error_msg,
                     enhance_template_error(ContextOf(domain), error_msg,
                                            SourceLines)>>
    /\ UNCHANGED <<inputs, pc, store, lookup, rendered, batch, error, events>>

SuggestNext == Suggest

SuggestSpec == ErrorInit /\ [][SuggestNext]_vars

ErrorNext == EnhanceTemplateError

ErrorSpec == ErrorInit /\ [][ErrorNext]_vars

(***************************************************************************)
(* The default helper on its own: the store is the one a generate run      *)
(* builds for the domain object and a file of custom variables.            *)
(***************************************************************************)
K_service_port == <<"s", "e", "r", "v", "i", "c", "e", "_", "p", "o", "r", "t">>

\* what the file of custom variables gives service_port, None when it does
\* not name it
CustomValues ==
    { None, Some(VStr("")), Some(VStr("9090")), Some(VNum(8080)), Some(VNum(0)),
      Some(VBool(TRUE)), Some(VBool(FALSE)), Some(VNull) }
CustomDoc(value) ==
    IF value = None THEN VObj(<<>>)
    ELSE VObj(<< <<K_service_port, Unwrap(value)>> >>)

Fallbacks == { Some(VStr("80")), Some(VStr("")), Some(VNum(80)), None }
DefaultPaths ==
    { <<K_service_port>>, <<K_missing, K_path>>, <<K_resources, K_name>> }
LeadingTexts == { <<>>, << Lit("port: ") >> }

\* process_template of a template with the helper, after
\* merge_custom_variables of the document
ProcessDefault ==
    /\ call = None
    /\ \E value \in CustomValues, fallback \in Fallbacks,
          segments \in DefaultPaths, prefix \in LeadingTexts :
           LET context == flatten_and_merge(MergeState(ContextOf(domain), <<>>),
                                            <<>>, CustomDoc(value)).vars
               template == prefix \o << Default(segments, fallback) >>
           IN call' = <<"process_template", <<value, template>>,
                        process_template(context, template)>>
    /\ UNCHANGED <<inputs, pc, store, lookup, rendered, batch, error, events>>

HelperNext == ProcessDefault

HelperSpec == ErrorInit /\ [][HelperNext]_vars

(***************************************************************************)
(* merge_custom_variables on its own.  A variables file is its extension   *)
(* and what reading and parsing it gives: Unreadable, Malformed (no        *)
(* document of its format), or the value of the document.  The error is    *)
(* <<variant of CliError, what its message tells>>.                        *)
(***************************************************************************)
ReadFails == <<"unreadable">>
ParseFails == <<"malformed">>
VariablesFile(extension, content) ==
    [extension |-> extension, content |-> content]

VariableFileError(cause) == <<"VariableFileError", cause>>

\* a merge whose parse failures do not tell the format
merge_without_format(context, variables_file) ==
    LET extension == ToLowercase(variables_file.extension)
        custom_vars == variables_file.content
        parsed == extension \in { <<"j", "s", "o", "n">>, <<"y", "a", "m", "l">>,
                                  <<"y", "m", "l">> }
    IN IF custom_vars = ReadFails THEN Err(VariableFileError("read"))
       ELSE IF ~parsed THEN Err(VariableFileError("extension"))
       ELSE IF custom_vars = ParseFails THEN Err(VariableFileError("parse"))
       ELSE IF ~IsObject(custom_vars) THEN Err(VariableFileError("root"))
       ELSE Ok(flatten_and_merge(MergeState(context, <<>>), <<>>, custom_vars))

\* VariableContextBuilder::merge_custom_variables: read, choose the parser
\* by the extension, parse, require an object at the root, flatten
merge_custom_variables(context, variables_file) ==
    LET extension == ToLowercase(variables_file.extension)
        custom_vars == variables_file.content
    IN IF custom_vars = ReadFails THEN Err(VariableFileError("read"))
       ELSE IF extension = <<"j", "s", "o", "n">>
       THEN (IF custom_vars = ParseFails THEN Err(VariableFileError("json"))
             ELSE IF ~IsObject(custom_vars) THEN Err(VariableFileError("root"))
             ELSE Ok(flatten_and_merge(MergeState(context, <<>>), <<>>,
                                       custom_vars)))
       ELSE IF extension = <<"y", "a", "m", "l">> \/ extension = <<"y", "m", "l">>
       THEN (IF custom_vars = ParseFails THEN Err(VariableFileError("yaml"))
             ELSE IF ~IsObject(custom_vars) THEN Err(VariableFileError("root"))
             ELSE Ok(flatten_and_merge(MergeState(context, <<>>), <<>>,
                                       custom_vars)))
       ELSE Err(VariableFileError("extension"))

FileExtensions ==
    { <<"j", "s", "o", "n">>, <<"y", "a", "m", "l">>, <<"y", "m", "l">>, <<"Y", "M", "L">>, <<"t", "x", "t">>, <<>> }
FileDocuments ==
    OverrideDocs \cup { ReadFails, ParseFails, VArr(<< VStr("item1") >>),
                        VStr("text"), VNull }

\* VariableContextBuilder::merge_custom_variables(&mut context, file)
MergeFile ==
    /\ call = None
    /\ \E extension \in FileExtensions, content \in FileDocuments :
           LET variables_file == VariablesFile(extension, content)
           IN call' = <<"merge_custom_variables", variables_file,
                        merge_custom_variables(ContextOf(domain), variables_file)>>
    /\ UNCHANGED <<inputs, pc, store, lookup, rendered, batch, error, events>>

MergeFileNext == MergeFile

MergeFileSpec == ErrorInit /\ [][MergeFileNext]_vars

(***************************************************************************)
(* levenshtein_distance on its own, over the strings of up to MaxChars     *)
(* characters, one of the characters of two bytes.                         *)
(***************************************************************************)
MaxChars == 2
Alphabet == {"a", "b", E_acute}
Strings == UNION {[1..n -> Alphabet] : n \in 0..MaxChars}

\* processor.levenshtein_distance(s1, s2)
LevenshteinDistance ==
    /\ call = None
    /\ \E s1 \in Strings, s2 \in Strings :
           call' = <<"levenshtein_distance", <<s1, s2>>, levenshtein_distance(s1, s2)>>
    /\ UNCHANGED <<inputs, pc, store, lookup, rendered, batch, error, events>>

LevenshteinNext == LevenshteinDistance

LevenshteinSpec == ErrorInit /\ [][LevenshteinNext]_vars

(***************************************************************************)
(* S3Client::retry_operation.  `call` holds the activation: the argument   *)
(* max_retries and the locals.  The operation is any operation: an attempt *)
(* succeeds or fails, and attempt n yields Ok(n) or Err(n).  The delay is  *)
(* 100 ms * 2^delay; a Duration holds at most u64::MAX seconds, so the     *)
(* greatest delay is 100 ms * 2^67, and `delay *= 2` panics beyond it as   *)
(* the multiplication of a Duration does on overflow.                      *)
(***************************************************************************)
MaxRetries == 8
MaxDelayDoublings == 67

Activation(max_retries, retries, delay, attempts, slept, at, result) ==
    <<"retry_operation", max_retries,
      [retries |-> retries, delay |-> delay, attempts |-> attempts,
       slept |-> slept, at |-> at, result |-> result]>>

Retrying == call # None /\ call[1] = "retry_operation"

\* a retry that goes on for ever
NeverGiveUp(retries, max_retries) == FALSE

\* if retries > max_retries { return Err(e) }
GiveUp(retries, max_retries) == retries > max_retries

\* let mut retries = 0; let mut delay = Duration::from_millis(100);
RetryOperation ==
    /\ call = None
    /\ \E max_retries \in 0..MaxRetries :
           call' = Activation(max_retries, 0, 0, 0, <<>>, "operation", None)
    /\ UNCHANGED <<inputs, pc, store, lookup, rendered, batch, error, events>>

\* match operation().await { Ok(result) => return Ok(result),
\*                           Err(e) => { retries += 1; ... } }
Attempt(succeeds) ==
    /\ Retrying
    /\ call[3].at = "operation"
    /\ LET max_retries == call[2]
           f == call[3]
           attempts == f.attempts + 1
           retries == f.retries + 1
       IN call' =
            IF succeeds
            THEN Activation(max_retries, f.retries, f.delay, attempts, f.slept,
                            "returned", Ok(attempts))
            ELSE IF GiveUp(retries, max_retries)
            THEN Activation(max_retries, retries, f.delay, attempts, f.slept,
                            "returned", Err(attempts))
            ELSE Activation(max_retries, retries, f.delay, attempts, f.slept,
                            "sleep", None)
    /\ UNCHANGED <<inputs, pc, store, lookup, rendered, batch, error, events>>

\* tokio::time::sleep(delay).await; delay *= 2;
Sleep ==
    /\ Retrying
    /\ call[3].at = "sleep"
    /\ LET f == call[3]
       IN call' =
            IF f.delay + 1 > MaxDelayDoublings
            THEN Activation(call[2], f.retries, f.delay, f.attempts,
                            Append(f.slept, f.delay), "panicked", None)
            ELSE Activation(call[2], f.retries, f.delay + 1, f.attempts,
                            Append(f.slept, f.delay), "operation", None)
    /\ UNCHANGED <<inputs, pc, store, lookup, rendered, batch, error, events>>

RetryNext ==
    \/ RetryOperation
    \/ \E succeeds \in BOOLEAN : Attempt(succeeds)
    \/ Sleep

\* every attempt and every sleep comes to its end: a step that can be taken
\* is taken
RetrySpec == ErrorInit /\ [][RetryNext]_vars /\ WF_vars(RetryNext)

(***************************************************************************)
(*                              PROPERTIES                                 *)
(***************************************************************************)

(***************************************************************************)
(* The addressing convention of the store, stated on its own: the field    *)
(* `key` of the value at P is at P.key (at key when P is the root), the    *)
(* element i of the array at P is at P[i].                                 *)
(***************************************************************************)
FieldPath(p, key) == IF Len(p) = 0 THEN key ELSE p \o <<".">> \o key
ElementPath(p, i) == p \o <<"[">> \o FormatUsize(i) \o <<"]">>

Composite(v) == v[1] \in {"obj", "arr"}

\* every <<path, value>> position strictly below the value v stored at p
RECURSIVE NodesUnder(_, _)
NodesUnder(p, v) ==
    IF v[1] = "obj"
    THEN UNION { {<<FieldPath(p, v[2][i][1]), v[2][i][2]>>}
                 \cup NodesUnder(FieldPath(p, v[2][i][1]), v[2][i][2]) :
                 i \in 1..Len(v[2]) }
    ELSE IF v[1] = "arr"
    THEN UNION { {<<ElementPath(p, i - 1), v[2][i]>>}
                 \cup NodesUnder(ElementPath(p, i - 1), v[2][i]) :
                 i \in 1..Len(v[2]) }
    ELSE {}

LeavesUnder(p, v) == {n \in NodesUnder(p, v) : ~Composite(n[2])}

StoredComposites == {p \in DOMAIN variables : Composite(variables[p])}

Occurrences(seq, x) == Cardinality({i \in 1..Len(seq) : seq[i] = x})

\* C1: for every composite value the builder or the merge put in the store at
\* P, get(P) returns it and get of every leaf path under P returns the value
\* at that position inside it.
C1_DualIndexing ==
    \A p \in StoredComposites :
        /\ get(variables, p) = Some(variables[p])
        /\ \A leaf \in LeavesUnder(p, variables[p]) :
               get(variables, leaf[1]) = Some(leaf[2])

\* C2 as stated: whenever a composite value is stored at P, every leaf under
\* P is also a key of the store; and both builders store the whole
\* configuration map at root[i].configuration and each of its entries at
\* root[i].configuration.<key>.
C2_EveryLeafStored ==
    \A p \in StoredComposites :
        \A leaf \in LeavesUnder(p, variables[p]) : leaf[1] \in DOMAIN variables

ResourceRoot == IF domain[1] = "blueprint" THEN K_resources ELSE K_stack_resources
DomainResources ==
    IF domain[1] = "blueprint" THEN domain[2].resources
    ELSE domain[2].stack_resources
\* the configuration map of resource i (1-based) as a value
ConfigurationOf(i) ==
    IF domain[1] = "blueprint" THEN DomainResources[i].configuration
    ELSE <<"obj", DomainResources[i].configuration>>
ConfigurationPath(i) ==
    FieldPath(ElementPath(ResourceRoot, i - 1), K_configuration)

WholeConfigurationStored(i) ==
    /\ ConfigurationPath(i) \in DOMAIN variables
    /\ variables[ConfigurationPath(i)] = ConfigurationOf(i)

ConfigurationEntriesStored(i) ==
    \A e \in 1..Len(ConfigurationOf(i)[2]) :
        LET key == FieldPath(ConfigurationPath(i), ConfigurationOf(i)[2][e][1])
        IN /\ key \in DOMAIN variables
           /\ variables[key] = ConfigurationOf(i)[2][e][2]

C2_AsStated ==
    /\ C2_EveryLeafStored
    /\ pc = "built" =>
           \A i \in 1..Len(DomainResources) :
               WholeConfigurationStored(i) /\ ConfigurationEntriesStored(i)

\* C2 amended: every composite value that the override merge stores at a path
\* P has each leaf under P stored under its own full-path key; from_blueprint
\* stores the whole configuration map at resources[i].configuration, and
\* from_stack stores each configuration entry at
\* stack_resources[i].configuration.<key>.
C2_MergeFlattensBuildersIndex ==
    /\ pc = "merged" =>
           \A n \in NodesUnder(<<>>, Unwrap(merged)) :
               Composite(n[2]) =>
                   /\ n[1] \in DOMAIN variables
                   /\ \A leaf \in LeavesUnder(n[1], n[2]) :
                          leaf[1] \in DOMAIN variables
    /\ pc = "built" =>
           \A i \in 1..Len(DomainResources) :
               IF domain[1] = "blueprint"
               THEN WholeConfigurationStored(i)
               ELSE ConfigurationEntriesStored(i)

\* a merge stored a nested composite, and a builder indexed a configuration
C2_Witness ==
    /\ pc = "merged"
    /\ Len(DomainResources) > 0
    /\ \E n \in NodesUnder(<<>>, Unwrap(merged)) :
           /\ Composite(n[2])
           /\ \E leaf \in LeavesUnder(n[1], n[2]) : Len(leaf[1]) > Len(n[1]) + 3

\* C3: get returns a value or not-found for every path, whatever the store:
\* it never aborts.
C3_GetNeverAborts ==
    lookup # None => lookup[2][1] \in {"some", "none"}

\* C6: after a merge, every path of the override document that was in the
\* store before holds the document's value, and exactly one warning names it.
C6_OverridePrecedence ==
    pc = "merged" =>
        \A n \in NodesUnder(<<>>, Unwrap(merged)) :
            n[1] \in DOMAIN before =>
                /\ variables[n[1]] = n[2]
                /\ Occurrences(warnings, n[1]) = 1

(***************************************************************************)
(* Rendering.  A placeholder is written with dots throughout; the store    *)
(* path it names has its numeric segments in brackets.                     *)
(***************************************************************************)
RECURSIVE StorePath(_)
StorePath(segments) ==
    IF Len(segments) = 1 THEN segments[1]
    ELSE LET front == StorePath(SubSeq(segments, 1, Len(segments) - 1))
             last == segments[Len(segments)]
         IN IF ParseUsize(last) >= 0
            THEN front \o <<"[">> \o last \o <<"]">>
            ELSE front \o <<".">> \o last

Placeholders(template) ==
    {k \in 1..Len(template) : template[k][1] = "var"}

\* the placeholders of a template whose path the store does not resolve
AbsentPlaceholders(template, context) ==
    {k \in Placeholders(template) :
        get(context, StorePath(template[k][2])) = None}

\* the context as the builder left it
BuilderContext ==
    IF domain[1] = "blueprint" THEN from_blueprint(domain[2])
    ELSE from_stack(domain[2])

\* C4: a well-formed template with a placeholder whose path is absent from
\* the store renders successfully, and when the template is that placeholder
\* alone its output is the empty string.
C4_MissingRendersEmpty ==
    \A n \in 1..Len(rendered) :
        LET template == rendered[n][1]
            context == rendered[n][2]
            result == rendered[n][3]
        IN (template # Malformed /\ AbsentPlaceholders(template, context) # {})
           => /\ IsOk(result)
              /\ Len(template) = 1 => result = Ok(<<>>)

\* C5: when a well-formed template is rendered against the context the
\* builder produced, every placeholder whose path the store resolves to a
\* string is replaced by that string: the render succeeds and the string is
\* part of the output.
C5_RenderSubstitutesStoreValue ==
    \A n \in 1..Len(rendered) :
        LET template == rendered[n][1]
            context == rendered[n][2]
            result == rendered[n][3]
        IN (template # Malformed /\ context = BuilderContext)
           => \A k \in Placeholders(template) :
                  LET value == get(context, StorePath(template[k][2]))
                  IN (IsSome(value) /\ Unwrap(value)[1] = "str")
                     => /\ IsOk(result)
                        /\ \E m \in 1..Len(result[2]) :
                               result[2][m] = Unwrap(value)[2]

C8_WriterAtomicity ==
    lastWrite # None =>
        LET path == Unwrap(lastWrite)[1]
            content == Unwrap(lastWrite)[2]
        IN /\ ~Exists(outfs, Parent(path) \o << FileStem(path) \o <<".", "t", "m", "p">> >>)
           /\ IsFile(outfs, path)
           /\ outfs[path][2] = content
           /\ platform = "unix" => outfs[path][3] = OwnerOnly

\* a successful write over an earlier output that had a broader mode, with a
\* file at the temporary path before the run
C8_Witness ==
    /\ lastWrite # None
    /\ platform = "unix"
    /\ Unwrap(lastWrite)[1] = <<F_a_tf>>
    /\ overwrites = << <<F_a_tf>> >>
    /\ outfs[<<F_a_tf>>] = File(Unwrap(lastWrite)[2], OwnerOnly)

\* the files the writer has reported written, with their content
WrittenContent(j) == processed_files[j].content

\* C9: an error ends the run with that error: nothing is rendered or written
\* after it, and every file written before it is still on disk with its
\* content.
C9_FailFast ==
    /\ error # None <=> pc = "failed"
    /\ \A i \in 1..Len(events) : events[i][1] = "error" => i = Len(events)
    /\ pc = "failed" =>
           \A j \in 1..Len(written_files) :
               /\ IsFile(outfs, written_files[j])
               /\ outfs[written_files[j]][2] = WrittenContent(j)

\* a run that failed in the write of its second file, the first on disk
C9_Witness ==
    /\ pc = "failed"
    /\ Len(written_files) = 1
    /\ Len(processed_files) = 2
    /\ IsFile(outfs, written_files[1])

\* the position of a stage in the order stated for C10: discovery, context
\* builder (with its merge), then render and write file by file
StatedBefore(e, f) ==
    LET rank(x) == IF x[1] = "discover" THEN 1
                   ELSE IF x[1] = "build" THEN 2
                   ELSE IF x[1] = "merge" THEN 3
                   ELSE 4
    IN \/ rank(e) < rank(f)
       \/ /\ rank(e) = 4 /\ rank(f) = 4
          /\ \/ e[2] < f[2]
             \/ e[2] = f[2] /\ e[1] = "render" /\ f[1] = "write"

\* the order handle_generate has: context builder (with its merge),
\* discovery, every render, every write
ActualBefore(e, f) ==
    LET rank(x) == IF x[1] = "build" THEN 1
                   ELSE IF x[1] = "merge" THEN 2
                   ELSE IF x[1] = "discover" THEN 3
                   ELSE IF x[1] = "render" THEN 4
                   ELSE 5
    IN \/ rank(e) < rank(f)
       \/ rank(e) = rank(f) /\ rank(e) >= 4 /\ e[2] < f[2]

Stages == {i \in 1..Len(events) : events[i][1] # "error"}
CountUpTo(stage, n) ==
    Cardinality({i \in Stages : i <= n /\ events[i][1] = stage})
Count(stage) == CountUpTo(stage, Len(events))

\* C10 as stated: discovery, then the context builder exactly once, then for
\* each file its render followed by its write.
C10_StatedOrder ==
    /\ Count("build") <= 1
    /\ \A i, j \in Stages : i < j => StatedBefore(events[i], events[j])
    /\ \A i \in Stages :
           (events[i][1] = "render" /\ events[i][2] > 1)
           => \E k \in 1..(i - 1) : events[k] = Event("write", events[i][2] - 1)

\* C10, amended: the context builder runs first and exactly once, then the
\* optional merge, then discovery, then the render of every discovered file
\* in order, and only then the write of every rendered file in order.
C10_BuildDiscoverRenderAllWriteAll ==
    /\ Count("build") <= 1
    /\ Stages # {} => events[1] = Event("build", 0)
    /\ \A i, j \in Stages : i < j => ActualBefore(events[i], events[j])
    /\ \A i \in Stages :
           /\ events[i][1] \in {"render", "write"}
              => events[i][2] = CountUpTo(events[i][1], i)
           /\ events[i][1] = "write"
              => CountUpTo("render", i) = Len(template_files)

\* a run with a merge that rendered two files and then wrote both
C10_Witness ==
    /\ pc = "done"
    /\ merged # None
    /\ Len(written_files) = 2
    /\ Count("render") = 2
    /\ Count("write") = 2

(***************************************************************************)
(* The life of the context.                                                *)
(***************************************************************************)
\* the context that construction yields: the builder's, with the override
\* document merged into it when the run has one
ConstructedContext ==
    IF merged = None THEN BuilderContext
    ELSE flatten_and_merge(MergeState(BuilderContext, <<>>), <<>>,
                           Unwrap(merged)).vars

\* C11: from the first render of a run onward the context is exactly what
\* construction (builder, then the optional merge) made it: rendering,
\* processing a file and writing add, change and remove nothing.
C11_StoreReadOnlyAfterConstruction ==
    Count("render") > 0 => variables = ConstructedContext

\* a run with a merge that changed the context, past its second render
C11_Witness ==
    /\ Count("render") = 2
    /\ merged # None
    /\ variables # BuilderContext
    /\ pc = "writing"

(***************************************************************************)
(* Discovery.  What a directory holds is read off its entries here without *)
(* the walk: a file counts when the text after the last '.' of its name,   *)
(* in lower case, is a recognised extension, and it is visible when        *)
(* neither its name nor the name of a directory above it, below the root,  *)
(* begins with '.'.                                                        *)
(***************************************************************************)
Recognised(name) ==
    LET dot == RFind(name, ".")
        ext == [i \in 1..(Len(name) - dot) |->
                   IF name[dot + i] = "T" THEN "t"
                   ELSE IF name[dot + i] = "F" THEN "f" ELSE name[dot + i]]
    IN /\ dot > 1
       /\ ext \in { <<"t", "f">>, <<"y", "a", "m", "l">>, <<"y", "m", "l">>,
                    <<"j", "s", "o", "n">> }

Visible(path) == \A i \in 1..Len(path) : path[i][1] # "."

Discovered == call # None /\ call[3][1] = "ok"
Entries == call[2][2]

\* the paths of the recognised, visible files of the directory
RecognisedFiles ==
    {Entries[i].path : i \in {k \in 1..Len(Entries) :
        /\ Entries[k].kind = "file"
        /\ Recognised(Entries[k].path[Len(Entries[k].path)])
        /\ Visible(Entries[k].path)}}

ReturnedPaths == {call[3][2][i].relative_path : i \in 1..Len(call[3][2])}

\* C12: when discovery of a directory succeeds it returns exactly one entry
\* for each visible file with a recognised extension, whatever the case of
\* the extension, and no other entry; each entry carries the path of its
\* file below the root.
C12_DiscoveryCompleteness ==
    Discovered =>
        /\ ReturnedPaths = RecognisedFiles
        /\ Len(call[3][2]) = Cardinality(RecognisedFiles)

\* three recognised files, one of them in a subdirectory and one with an
\* upper-case extension, among files of every other sort
C12_Witness ==
    /\ Discovered
    /\ ReturnedPaths = { <<F_a_tf>>, <<F_d_TF>>, <<D_sub, F_b_yaml>> }
    /\ Len(Entries) = 10

\* C13: no returned file is hidden or lies beneath a hidden directory, and
\* a hidden name of the root itself prunes nothing: the visible recognised
\* files beneath it are returned.
C13_HiddenPruned ==
    Discovered =>
        /\ \A p \in ReturnedPaths : Visible(p)
        /\ RecognisedFiles \subseteq ReturnedPaths

\* a hidden root with a hidden file, a hidden directory holding a template
\* and an unreadable entry, and a visible template
C13_Witness ==
    /\ Discovered
    /\ call[2][3][1] = "."
    /\ ReturnedPaths = { <<F_a_tf>> }
    /\ \E i \in 1..Len(Entries) : Entries[i].path = <<D_hidden, F_c_json>>
    /\ \E i \in 1..Len(Entries) : Entries[i].path = <<D_hidden, F_z>>
    /\ \E i \in 1..Len(Entries) : Entries[i].path = <<F_g_yml>>

\* the entries the walk cannot read, among those it meets
Unreadables ==
    {k \in 1..Len(Entries) :
        Entries[k].kind \in {"denied", "failed"} /\ Visible(Entries[k].path)}
FirstUnreadable == Entries[CHOOSE k \in Unreadables : \A j \in Unreadables : k <= j]

\* C20: discovery of a missing root fails with DirectoryNotFound, of a root
\* that is no directory with NotADirectory; when the walk meets an entry it
\* cannot read, discovery fails with PermissionDenied naming that entry if
\* the failure is one of permission and with WalkError otherwise; a failed
\* discovery returns no file list, and discovery fails in no other case.
C20_DiscoveryFailures ==
    call # None =>
        /\ call[2] = Missing => call[3] = Err(<<"DirectoryNotFound", <<>>>>)
        /\ call[2] = NotDirectory => call[3] = Err(<<"NotADirectory", <<>>>>)
        /\ call[2][1] = "dir" =>
               IF Unreadables = {} THEN call[3][1] = "ok"
               ELSE call[3] = Err(<<IF FirstUnreadable.kind = "denied"
                                     THEN "PermissionDenied" ELSE "WalkError",
                                    FirstUnreadable.path>>)

\* a permission failure met after a template was found, and before an
\* entry that fails otherwise
C20_Witness ==
    /\ call # None
    /\ call[3] = Err(<<"PermissionDenied", <<D_sub, F_x>>>>)
    /\ \E i \in 1..Len(Entries) : Entries[i].path = <<F_a_tf>>
    /\ \E i \in 1..Len(Entries) : Entries[i].kind = "failed"

(***************************************************************************)
(* The output of a run.                                                    *)
(***************************************************************************)
\* the text that rendering the template at a path of the template directory
\* against the context gives
RenderedContent(path) ==
    LET at == CHOOSE i \in 1..Len(tree[2]) : tree[2][i].path = path
    IN process_template(variables, tree[2][at].content)[2]

\* C14: after a successful run every discovered template has, at its own
\* relative path below the output root, a file holding its rendered
\* content, and every directory on that path exists.
C14_OutputMirrorsTemplates ==
    pc = "done" =>
        \A i \in 1..Len(template_files) :
            LET r == template_files[i].relative_path
            IN /\ IsFile(outfs, r)
               /\ outfs[r][2] = RenderedContent(r)
               /\ \A n \in 0..(Len(r) - 1) : IsDir(outfs, SubSeq(r, 1, n))

\* two templates in one subdirectory, written into an output directory
\* that did not exist
C14_Witness ==
    /\ pc = "done"
    /\ Len(template_files) = 2
    /\ IsFile(outfs, <<D_sub, F_b_yaml>>)
    /\ IsFile(outfs, <<D_sub, F_c_json>>)
    /\ IsDir(outfs, <<D_sub>>)
    /\ ~Exists(outfs, <<F_a_tf>>)

(***************************************************************************)
(* C15. process_file validates only the YAML kind: a YAML file whose       *)
(* rendered content is no YAML is an error and no processed file, and a    *)
(* file of any other kind is returned with its rendered content whatever   *)
(* that content is.                                                        *)
(***************************************************************************)
Processed == call # None /\ call[1] = "process_file"
ProcessedTemplate == call[2][2]
Rendering ==
    process_template(ContextOf(domain), call[2][1][2][1].content)
NoYaml(content) == \E i \in 1..Len(content) : content[i] = BrokenYaml

C15_OnlyYamlValidated ==
    Processed /\ call[2][1][2][1].content # Unreadable /\ IsOk(Rendering)
    => IF ProcessedTemplate.file_type = "Yaml" /\ NoYaml(Rendering[2])
       THEN ~IsOk(call[3])
       ELSE call[3] = Ok([relative_path |-> ProcessedTemplate.relative_path,
                          content |-> Rendering[2]])

C15_Witness ==
    /\ Processed
    /\ ProcessedTemplate.file_type = "Terraform"
    /\ IsOk(call[3])
    /\ NoYaml(call[3][2].content)

C15_WitnessYaml ==
    /\ Processed
    /\ ProcessedTemplate.relative_path = <<F_k_YML>>
    /\ call[2][1][2][1].content = T_documents
    /\ ~IsOk(call[3])
    /\ call[3][2] = YamlError(<<F_k_YML>>, Some(2))

(***************************************************************************)
(* C16. validate_yaml splits the content at the three-dash lines that      *)
(* stand between two line breaks, drops the documents that are white       *)
(* space, and parses the others in order: the content is valid when all    *)
(* of them parse, among them the empty and the white content; otherwise    *)
(* the error names the file and, when more than one document is left, the  *)
(* number, counted from one, of the first document that fails.             *)
(***************************************************************************)
Validated == call # None /\ call[1] = "validate_yaml"

\* the first line of the run of three-dash lines that line i belongs to
RunStart(lines, i) ==
    CHOOSE s \in 1..i :
        /\ \A j \in s..i : lines[j] = <<Marker>>
        /\ s = 1 \/ lines[s - 1] # <<Marker>>

\* of a run of three-dash lines every second one separates, the first of
\* them unless it is the first line of the content, and never the last line
Separators(lines) ==
    { i \in 2..(Len(lines) - 1) :
        /\ lines[i] = <<Marker>>
        /\ LET s == RunStart(lines, i)
           IN IF s = 1 THEN (i - s) % 2 = 1 ELSE (i - s) % 2 = 0 }

\* the lines of the documents of a content that are left, in order
LeftDocuments(content) ==
    LET lines == Lines(content)
        ends == Separators(lines) \cup {Len(lines) + 1}
        starts == { e + 1 : e \in Separators(lines) \cup {0} }
        EndOf(s) == CHOOSE e \in ends : e >= s /\ \A f \in ends : f >= s => e <= f
        left == { s \in starts :
                    \E i \in s..(EndOf(s) - 1) : \E j \in 1..Len(lines[i]) :
                        lines[i][j] # Space }
        Rank(s) == Cardinality({ t \in left : t <= s })
    IN [ k \in 1..Cardinality(left) |->
           LET s == CHOOSE t \in left : Rank(t) = k
           IN SubSeq(lines, s, EndOf(s) - 1) ]

C16_WitnessSingle ==
    /\ Validated
    /\ Lines(call[2][1]) = << <<>>, <<Marker>>, <<BrokenYaml>> >>
    /\ call[3] = Err(YamlError(call[2][2], None))

C16_WitnessWhite ==
    /\ Validated
    /\ Lines(call[2][1]) = << <<Space>>, <<>>, <<Space>> >>
    /\ IsOk(call[3])

(***************************************************************************)
(* C18. The suggestions for a failed name that is one edit away from a     *)
(* path of the store hold that path, and are five at most.                 *)
(***************************************************************************)
Suggested == call # None /\ call[1] = "suggest_similar_variables"

\* b is a with one character left out
OneLeftOut(a, b) ==
    /\ Len(a) = Len(b) + 1
    /\ \E i \in 1..Len(a) :
           b = SubSeq(a, 1, i - 1) \o SubSeq(a, i + 1, Len(a))

OneEditAway(a, b) ==
    \/ OneLeftOut(a, b)
    \/ OneLeftOut(b, a)
    \/ /\ Len(a) = Len(b)
       /\ Cardinality({i \in 1..Len(a) : a[i] # b[i]}) = 1

Names(list) == {list[i] : i \in 1..Len(list)}

C18_SuggestionRelevance ==
    Suggested
    => /\ Len(call[3][2]) <= 5
       /\ \A path \in DOMAIN ContextOf(domain) :
              OneEditAway(call[2], path) => path \in Names(call[3][2])

\* the failed name of test_error_handling_variable_suggestions
C18_Suggests ==
    /\ Suggested
    /\ call[2] = <<"b", "l", "u", "e", "p", "r", "n", "t", ".", "n", "a", "m", "e">>
    /\ <<"b", "l", "u", "e", "p", "r", "i", "n", "t", ".", "n", "a", "m", "e">>
           \in Names(call[3][2])

(***************************************************************************)
(* C17. enhance_template_error classifies a message in this order: when a  *)
(* line number can be extracted from it, a syntax error with that number   *)
(* and the line of the template that bears it; else, when the message      *)
(* speaks of something not found or undefined and a variable name can be   *)
(* extracted, a not-found error with the name and the suggestions for it;  *)
(* else a processing error with the message.  A line number is extracted   *)
(* where the first "line " of the message is followed by digits and one    *)
(* more character.                                                         *)
(***************************************************************************)
Enhanced == call # None /\ call[1] = "enhance_template_error"

StatedLine(message) ==
    LET at == {p \in 1..(Len(message) - 4) :
                  SubSeq(message, p, p + 4) = S_line}
        p == CHOOSE q \in at : \A r \in at : q <= r
        runs == {k \in 1..(Len(message) - p - 5) :
                    /\ \A i \in (p + 5)..(p + 4 + k) : message[i] \in DigitChars
                    /\ message[p + 5 + k] \notin DigitChars}
    IN IF at = {} \/ runs = {} THEN None
       ELSE LET k == CHOOSE n \in runs : TRUE
            IN Some(DigitsValue(SubSeq(message, p + 5, p + 4 + k)))

SpeaksOfUnresolved(message) ==
    \/ \E p \in 1..(Len(message) - Len(S_not_found) + 1) :
           SubSeq(message, p, p + Len(S_not_found) - 1) = S_not_found
    \/ \E p \in 1..(Len(message) - Len(S_undefined) + 1) :
           SubSeq(message, p, p + Len(S_undefined) - 1) = S_undefined

C17_EnhancementPriority ==
    Enhanced
    => LET message == call[2]
           line == StatedLine(message)
           name == extract_variable_name(message)
       IN IF line # None
          THEN /\ call[3][1] = "TemplateSyntaxError"
               /\ call[3][2] = Unwrap(line)
               /\ Unwrap(line) \in 1..Len(SourceLines)
                      => call[3][3] = SourceLines[Unwrap(line)]
          ELSE IF SpeaksOfUnresolved(message) /\ name # None
          THEN /\ call[3][1] = "VariableNotFoundError"
               /\ call[3][2] = Unwrap(name)
               /\ call[3][3] = suggest_similar_variables(ContextOf(domain),
                                                         Unwrap(name))
          ELSE /\ call[3][1] = "ProcessingError"
               /\ call[3][2] = message

\* a message with a line number and a name that was not found
C17_Witness ==
    /\ Enhanced
    /\ call[2] = <<"l", "i", "n", "e", " ", "3", ",", "n", "o", "t", " ", "f", "o", "u", "n", "d", "v", "a", "r", "i", "a", "b", "l", "e", " ", "n", "m", "e", ":">>
    /\ call[3][1] = "TemplateSyntaxError"
    /\ call[3][2] = 3
    /\ call[3][3] = "{{name"

C17_WitnessNotFound ==
    /\ Enhanced
    /\ call[2] = <<"l", "i", "n", "e", " ", "x", "u", "n", "d", "e", "f", "i", "n", "e", "d", "v", "a", "r", "i", "a", "b", "l", "e", " ", "n", "m", "e", ":">>
    /\ call[3][1] = "VariableNotFoundError"
    /\ call[3][2] = <<"n", "m", "e">>
    /\ call[3][3][1] = "sample"

(***************************************************************************)
(* C19. {{default service_port "80"}} renders 80 when the store has no     *)
(* service_port or has the empty string, and renders the value of          *)
(* service_port otherwise, whether it is a string, a number or a boolean.  *)
(***************************************************************************)
Helped == call # None /\ call[1] = "process_template"
HelpedPart == call[2][2][Len(call[2][2])]
HelpedPrefix ==
    IF Len(call[2][2]) = 1 THEN <<>> ELSE << call[2][2][1][2] >>

C19_DefaultHelper ==
    Helped /\ HelpedPart[2] = <<K_service_port>>
           /\ HelpedPart[3] = Some(VStr("80")) /\ call[2][1] # Some(VNull)
    => call[3] = Ok(HelpedPrefix \o
                    (IF call[2][1] = None \/ call[2][1] = Some(VStr(""))
                     THEN <<"80">>
                     ELSE RenderValue(Unwrap(call[2][1]))))

\* the helper on a string: the value when there is one, else the fallback
C19_DefaultOfStrings ==
    Helped /\ HelpedPart[2] = <<K_service_port>>
           /\ HelpedPart[3] = Some(VStr("80"))
           /\ call[2][1] \in {None, Some(VStr("")), Some(VStr("9090"))}
    => call[3] = Ok(HelpedPrefix \o
                    (IF call[2][1] = Some(VStr("9090")) THEN <<"9090">>
                     ELSE <<"80">>))

C19_NumberGivesFallback ==
    /\ Helped
    /\ call[2][1] = Some(VNum(8080))
    /\ call[2][2] = << Lit("port: "), Default(<<K_service_port>>, Some(VStr("80"))) >>
    /\ call[3] = Ok(<<"port: ", "80">>)

(***************************************************************************)
(* C21. merge_custom_variables tells its failures apart: a file that       *)
(* cannot be read gives the error of the read, a malformed document the    *)
(* parse error of its format (JSON or YAML), a root that is no object the  *)
(* error of the root.  All are VariableFileError; the cause is what the    *)
(* message of the error tells.                                             *)
(***************************************************************************)
MergedFile == call # None /\ call[1] = "merge_custom_variables"
MergeFailed == MergedFile /\ ~IsOk(call[3])
ParsedBy(variables_file) ==
    LET extension == ToLowercase(variables_file.extension)
    IN IF extension = <<"j", "s", "o", "n">> THEN "json"
       ELSE IF extension \in { <<"y", "a", "m", "l">>, <<"y", "m", "l">> }
       THEN "yaml"
       ELSE "none"

\* what is wrong with a variables file, "" when nothing is
Fault(variables_file) ==
    IF variables_file.content = ReadFails THEN "read"
    ELSE IF ParsedBy(variables_file) = "none" THEN "extension"
    ELSE IF variables_file.content = ParseFails THEN ParsedBy(variables_file)
    ELSE IF variables_file.content[1] # "obj" THEN "root"
    ELSE ""

SameAt(fs, gs, path) ==
    /\ Exists(fs, path) <=> Exists(gs, path)
    /\ Exists(fs, path) => fs[path] = gs[path]

RenameFailure ==
    /\ pc = "writing" /\ wstep = "rename"
    /\ pc' = "failed"

C22_RenameFailureCleansUp ==
    [][/\ RenameFailure
          => /\ ~Exists(outfs', TempPath(OutputPath))
             /\ error' = Some("IoError")
             /\ SameAt(outfs, outfs', OutputPath)
       /\ (pc = "writing" /\ wstep \in {"ensure", "temp", "perm"})
          => SameAt(outfs, outfs', OutputPath)]_vars

\* a failed rename on to an earlier output: the earlier content is there,
\* the temporary file is not
C22_Witness ==
    /\ pc = "failed" /\ wstep = "rename"
    /\ error = Some("IoError")
    /\ written_files = <<>>
    /\ Len(processed_files) > 0
    /\ processed_files[1].relative_path = <<F_a_tf>>
    /\ Exists(outfs, <<F_a_tf>>)
    /\ outfs[<<F_a_tf>>] = File(<<"old">>, DefaultMode)
    /\ ~Exists(outfs, <<F_a_tmp>>)

(***************************************************************************)
(* C23. levenshtein_distance(a, b) is the edit distance of a and b: the    *)
(* least number of insertions, deletions and substitutions of one          *)
(* character that turn a into b, also when a or b has characters of more   *)
(* than one byte.                                                          *)
(***************************************************************************)
\* the edit distance of the first i characters of a and the first j of b
RECURSIVE EditDistance(_, _, _, _)
EditDistance(a, b, i, j) ==
    IF i = 0 THEN j
    ELSE IF j = 0 THEN i
    ELSE Min(Min(EditDistance(a, b, i - 1, j) + 1,
                 EditDistance(a, b, i, j - 1) + 1),
             EditDistance(a, b, i - 1, j - 1)
                 + (IF a[i] = b[j] THEN 0 ELSE 1))

Measured == call # None /\ call[1] = "levenshtein_distance"
IsAscii(s) == ByteLen(s) = Len(s)

C23_LevenshteinIsEditDistance ==
    Measured
    => call[3] = EditDistance(call[2][1], call[2][2],
                              Len(call[2][1]), Len(call[2][2]))

\* what holds: the distance is right for strings of one-byte characters
C23_AsciiDistance ==
    (Measured /\ IsAscii(call[2][1]) /\ IsAscii(call[2][2]))
    => call[3] = EditDistance(call[2][1], call[2][2],
                              Len(call[2][1]), Len(call[2][2]))

\* "é" against "a": one substitution, and the distance returned is 0
C23_MultiByteGivesZero ==
    /\ Measured
    /\ call[2] = << <<E_acute>>, <<"a">> >>
    /\ call[3] = 0

(***************************************************************************)
(* C25. Whatever was built and merged, a stored key that lies under a      *)
(* stored composite path P (P followed by [i]... or .f...) is a position   *)
(* of the composite stored at P and holds the value at that position: no   *)
(* key outlives the element it named.                                      *)
(***************************************************************************)
Below(key, p) ==
    /\ Len(key) > Len(p)
    /\ SubSeq(key, 1, Len(p)) = p
    /\ key[Len(p) + 1] \in {Dot, LBracket}

StaleUnder(p) ==
    {key \in DOMAIN variables :
        /\ Below(key, p)
        /\ <<key, variables[key]>> \notin NodesUnder(p, variables[p])}

C25_NoStaleKeys ==
    \A p \in StoredComposites : StaleUnder(p) = {}

\* what holds: the builders leave no such key
C25_BuildersLeaveNoStaleKeys ==
    pc = "built" => C25_NoStaleKeys

\* the list of one resource overridden by a list of one element that has a
\* name only: the id of the resource is still stored under resources[0]
C25_StaleAfterOverride ==
    /\ pc = "merged"
    /\ Unwrap(merged) = VObj(<< <<K_resources, VArr(<< VObj(<< <<K_name, VStr("cache")>> >>) >>)>> >>)
    /\ K_resources \o <<"[", "0", "]", ".">> \o K_id \in DOMAIN variables
    /\ variables[K_resources \o <<"[", "0", "]">>] = VObj(<< <<K_name, VStr("cache")>> >>)

(***************************************************************************)
(* C26. A merge warns of an override for a path only if the path was in    *)
(* the store before the merge began: a key new to the store gives no       *)
(* warning, be its value a scalar, an object or an array.                  *)
(***************************************************************************)
Warned == {warnings[i] : i \in 1..Len(warnings)}

C26_WarningsOnlyForStoredPaths ==
    pc = "merged" => \A path \in Warned : path \in DOMAIN before

\* what holds: a new key whose value is a scalar or an object gives no
\* warning
C26_NoWarningForNewScalarOrObject ==
    pc = "merged"
    => \A path \in Warned :
           path \in DOMAIN before \/ IsArray(variables[path])

\* tags: ["a", "b"] merged into a store without tags: a warning names tags
C26_NewArrayWarned ==
    /\ pc = "merged"
    /\ Unwrap(merged) = VObj(<< <<K_tags, VArr(<< VStr("a"), VStr("b") >>)>> >>)
    /\ K_tags \notin DOMAIN before
    /\ warnings = <<K_tags>>

(***************************************************************************)
(* C24. In a run of generate every discovered template is rendered and     *)
(* validated before the first output file is written: while a template is  *)
(* still to be processed the output directory is what it was when the run  *)
(* began, and a run that fails in processing leaves it so.                 *)
(***************************************************************************)
Untouched == outfs \in OutputDirs /\ overwrites = <<>> /\ written_files = <<>>

C24_ProcessAllBeforeWriting ==
    /\ [][outfs' # outfs
           => /\ pc = "writing"
              /\ Len(processed_files) = Len(template_files)]_vars
    /\ [](pc \in {"new", "built", "merged", "processing"}
            => Untouched)
    /\ []((pc = "failed" /\ Len(processed_files) < Len(template_files))
            => Untouched)

\* a run whose second template failed after the first was processed: the
\* earlier output is still in the output directory
C24_Witness ==
    /\ pc = "failed"
    /\ Len(processed_files) >= 1
    /\ Len(processed_files) < Len(template_files)
    /\ written_files = <<>>
    /\ outfs = OutEarlier

(***************************************************************************)
(* C27. write_processed_files creates, changes or removes only the target  *)
(* files and their missing parent directories: no step changes or removes  *)
(* a file that is not a target, the temporary file the current write has   *)
(* made itself set aside; a file that was there before and is named        *)
(* <target stem>.tmp is such a file.                                       *)
(***************************************************************************)
Targets == {processed_files[i].relative_path : i \in 1..Len(processed_files)}
TempPaths == {TempPath(path) : path \in Targets}

\* the temporary file that the write under way has made
OwnTemp(path) ==
    /\ pc = "writing" /\ wstep \in {"perm", "rename"}
    /\ path = TempPath(OutputPath)

Kept(paths) ==
    \A path \in paths :
        IsFile(outfs, path) => SameAt(outfs, outfs', path)

C27_OnlyTargetsTouched ==
    [][Kept({path \in DOMAIN outfs : path \notin Targets /\ ~OwnTemp(path)})]_vars

\* what holds: a file that is neither a target nor beside one under the
\* name <target stem>.tmp is left as it is
C27_OthersKept ==
    [][Kept({path \in DOMAIN outfs : path \notin Targets \cup TempPaths})]_vars

\* a.tf written into a directory that held a.tf and a.tmp: a.tmp is gone
C27_TmpFileLost ==
    /\ written_files = << <<F_a_tf>> >>
    /\ overwrites = << <<F_a_tf>> >>
    /\ ~Exists(outfs, <<F_a_tmp>>)

\* a.tf and a.tmp still there after the files of sub/ were written
C27_OthersKeptWitness ==
    /\ pc = "done"
    /\ Len(written_files) = 2
    /\ Exists(outfs, <<F_a_tmp>>)
    /\ outfs[<<F_a_tmp>>] = File(<<"keep">>, DefaultMode)
    /\ outfs[<<F_a_tf>>] = File(<<"old">>, DefaultMode)

(***************************************************************************)
(* C28. Whenever write_with_warning has returned, with success or with an  *)
(* error (of the write of the temporary file, of reading its metadata, of  *)
(* setting its permissions, of the rename), the temporary file it made is  *)
(* not there any more.                                                     *)
(***************************************************************************)
\* the path and the content of the write that has just returned
Returned ==
    IF lastWrite # None THEN lastWrite
    ELSE IF pc = "failed" /\ wstep \in {"temp", "perm", "rename"}
    THEN Some(<<OutputPath, Current.content>>)
    ELSE None

\* the file at the temporary path is of this write's making: it holds the
\* content of the write or a part of it
MadeTemp(path, content) ==
    /\ IsFile(outfs, TempPath(path))
    /\ outfs[TempPath(path)][2] \in {content, Partial}

C28_TempGoneOnReturn ==
    Returned # None => ~MadeTemp(Unwrap(Returned)[1], Unwrap(Returned)[2])

\* what holds: gone after a success and after a failed rename
C28_TempGoneAfterRename ==
    (Returned # None /\ (lastWrite # None \/ wstep = "rename"))
    => ~MadeTemp(Unwrap(Returned)[1], Unwrap(Returned)[2])

\* set_permissions failed: the temporary file stays, with the whole content
C28_TempLeftBehind ==
    /\ pc = "failed" /\ wstep = "perm"
    /\ IsFile(outfs, TempPath(OutputPath))
    /\ outfs[TempPath(OutputPath)] = File(Current.content, DefaultMode)

(***************************************************************************)
(* C29. At every step of the write of one file, and so after a crash       *)
(* between any two steps, the target path holds what it held before        *)
(* (nothing, or the old file) or the whole new content, on unix with the   *)
(* owner-only mode: never a part of the content, never the new content     *)
(* with a broader mode.                                                    *)
(***************************************************************************)
NewAt(fs, path, content) ==
    /\ IsFile(fs, path)
    /\ fs[path][2] = content
    /\ platform = "unix" => fs[path][3] = OwnerOnly

Frame == call[3]

RetryBounded ==
    /\ Frame.attempts <= call[2] + 1
    /\ Frame.slept = [k \in 1..Len(Frame.slept) |-> k - 1]
    /\ Frame.at = "operation" => Len(Frame.slept) = Frame.attempts
    /\ Frame.at = "returned" =>
           /\ Len(Frame.slept) = Frame.attempts - 1
           /\ \/ Frame.result = Ok(Frame.attempts)
              \/ /\ Frame.result = Err(Frame.attempts)
                 /\ Frame.attempts = call[2] + 1

C30_RetryReturns ==
    /\ [](Retrying => RetryBounded /\ Frame.at # "panicked")
    /\ <>(Retrying /\ Frame.at = "returned")

\* three retries, as every caller asks for, all attempts failed
C30_LastError ==
    /\ Retrying
    /\ call[2] = 3
    /\ Frame.at = "returned"
    /\ Frame.result = Err(4)
    /\ Frame.slept = <<0, 1, 2>>

\* the second attempt succeeded: one delay of 100 ms, no third attempt
C30_FirstSuccess ==
    /\ Retrying
    /\ call[2] = 3
    /\ Frame.at = "returned"
    /\ Frame.result = Ok(2)
    /\ Frame.slept = <<0>>
====
